---- MODULE Spec2Model ----
(***************************************************************************)
(* A model of rv-runtime-generator: the memory layout engine and linker    *)
(* script emitter (linker.rs), the trap-frame / thread-pointer-block       *)
(* layout resolver (rt.rs) and the file-writing pipeline (generator.rs).   *)
(*                                                                         *)
(* Addresses and lengths are natural numbers far below 2^64: usize         *)
(* arithmetic never wraps in the configurations explored here.             *)
(***************************************************************************)
EXTENDS Integers, Sequences, FiniteSets, TLC

VARIABLES
    pc,               \* position of the build script in the pipeline
    memory_regions,   \* Vec<MemoryRegion> handed to LinkerConfig::new
    decl_sections,    \* Vec<Section> handed to LinkerConfig::new
    stack_location,   \* StackLocation handed to LinkerConfig::new
    memories,         \* LinkerConfig.memories (each with its registered sections)
    sections,         \* LinkerConfig.sections
    sentences,        \* LinkerBuilder.sentences of the last script generation
    files,            \* names of the files whose FileWriter::write has run
    emissions,        \* number of completed write_linker_files calls
    err,              \* the panic that aborted the process, "ok" while none
    target_config,    \* TargetConfig shared by LinkerConfig and RtConfig
    trap_frame,       \* the TrapFrame the build script fills and hands to RtConfig::new
    pushes,           \* number of entries the build script has pushed on trap_frame
    rt_config,        \* the RtConfig that RtConfig::new returned, NoRtConfig before
    asm,              \* the AsmBuilder of write_boot_s_file: its RtConfig and sentences
    harts,            \* the registers and position of each hart running the generated code
    ram               \* the memory the harts share in the start code

linker_vars == <<memory_regions, decl_sections, stack_location, memories,
                 sections, sentences, files, emissions, err, target_config>>

rt_vars == <<trap_frame, pushes, rt_config>>

\* The state of the assembly generation and of the harts that run the
\* generated code.
machine_vars == <<asm, harts, ram>>

vars == <<pc, linker_vars, rt_vars, machine_vars>>

(***************************************************************************)
(* Bounds of the explored configurations.                                  *)
(***************************************************************************)
\* Most Memory entries (regions plus sub-regions) in one declaration.
MaxMemories == 4
\* Most Sections in one declaration of the section-placement specification.
MaxSections == 2
\* Most write_linker_files calls on one LinkerConfig.
MaxEmissions == 2
\* Most entries the build script pushes on its TrapFrame.
MaxPushes == 3

\* linker.rs:94
KiB == 1024

\* rv-runtime-test/build.rs:5 -- the alignment every test Section is declared with
SectionAlignment == 4096

(***************************************************************************)
(* Helpers on sequences.                                                   *)
(***************************************************************************)
Range(s) == {s[i] : i \in 1..Len(s)}

RECURSIVE SumLengths(_, _)
\* Sum of the lengths of the first n entries of a sub-region list.
SumLengths(subs, n) ==
    IF n = 0 THEN 0 ELSE subs[n].length + SumLengths(subs, n - 1)

RECURSIVE BitAnd(_, _)
\* The bitwise & of two naturals.
BitAnd(a, b) ==
    IF a = 0 \/ b = 0 THEN 0
    ELSE (a % 2) * (b % 2) + 2 * BitAnd(a \div 2, b \div 2)

(***************************************************************************)
(* linker.rs: NAPOT checks.                                                *)
(***************************************************************************)
is_aligned(val, alignment) == (val % alignment) = 0

\* val - 1 underflows for val = 0: a build with overflow checks panics there,
\* one without wraps to all-ones and 0 & x = 0; check_napot below fails in
\* both builds (is_aligned then takes a remainder by zero).
is_power_of_2(val) == IF val = 0 THEN TRUE ELSE BitAnd(val, val - 1) = 0

\* A check_napot that forgets the alignment of the base.
check_napot_no_align(name, base, length) ==
    IF length = 0 THEN "napot_zero_length"
    ELSE IF ~is_power_of_2(length) THEN "not_power_of_2"
    ELSE "ok"

\* "ok", or the assertion of check_napot that fails.
check_napot(name, base, length) ==
    IF length = 0 THEN "napot_zero_length"
    ELSE IF ~is_power_of_2(length) THEN "not_power_of_2"
    ELSE IF ~is_aligned(base, length) THEN "not_aligned"
    ELSE "ok"

region_end(region) == region.base + region.length

\* Memory::new: a Memory with no Section registered yet.
Memory_new(name, base, length) ==
    [name |-> name, base |-> base, length |-> length, sections |-> <<>>]

RECURSIVE sub_region_loop(_, _, _, _)
\* The loop of Memory::from_memory_region over region.sub_regions from index i,
\* `base` being the running base and `mems` the memories pushed so far.
sub_region_loop(region, i, base, mems) ==
    IF i > Len(region.sub_regions) THEN [err |-> "ok", memories |-> mems]
    ELSE LET sub_region == region.sub_regions[i]
             napot_err == IF ~sub_region.napot THEN "ok"
                          ELSE IF ~region.napot THEN "napot_sub_region_in_non_napot"
                          ELSE check_napot(sub_region.name, base, sub_region.length)
         IN  IF napot_err # "ok" THEN [err |-> napot_err, memories |-> <<>>]
             ELSE IF ~(sub_region.length + base <= region_end(region))
                  THEN [err |-> "sub_region_overflow", memories |-> <<>>]
             ELSE sub_region_loop(region, i + 1, base + sub_region.length,
                      Append(mems, Memory_new(sub_region.name, base, sub_region.length)))

\* A from_memory_region whose sub-regions all start at the region's base.
from_memory_region_same_base(region) ==
    LET e == IF region.napot
             THEN check_napot(region.name, region.base, region.length) ELSE "ok"
    IN  IF e # "ok" THEN [err |-> e, memories |-> <<>>]
        ELSE [err |-> "ok",
              memories |-> <<Memory_new(region.name, region.base, region.length)>>
                  \o [j \in 1..Len(region.sub_regions) |->
                        Memory_new(region.sub_regions[j].name, region.base,
                                   region.sub_regions[j].length)]]

\* Memory::from_memory_region: the Memory of the region followed by those of
\* its sub-regions, or the assertion that fails.
from_memory_region(region) ==
    LET e == IF region.napot
             THEN check_napot(region.name, region.base, region.length) ELSE "ok"
    IN  IF e # "ok" THEN [err |-> e, memories |-> <<>>]
        ELSE sub_region_loop(region, 1, region.base,
                 <<Memory_new(region.name, region.base, region.length)>>)

(***************************************************************************)
(* linker.rs: LinkerConfig::new.                                           *)
(***************************************************************************)
\* Section::new: start and end alignment both the declared alignment, no
\* SubSection. `ty` is SectionType::name(); `custom` tells the Custom variant
\* from the standard ones and `size` is the size a Custom carries.
Section_new(ty, alignment_in_bytes, target_memory) ==
    [ty |-> ty,
     custom |-> FALSE,
     size |-> 0,
     start_alignment_in_bytes |-> alignment_in_bytes,
     end_alignment_in_bytes |-> alignment_in_bytes,
     target_memory |-> target_memory,
     subsections |-> <<>>]

\* Section::new(SectionType::Custom(name, size), alignment_in_bytes, target_memory).
Section_new_custom(name, size, alignment_in_bytes, target_memory) ==
    [Section_new(name, alignment_in_bytes, target_memory)
        EXCEPT !.custom = TRUE, !.size = size]

\* Option<usize>
None == [some |-> FALSE, value |-> 0]
Some(value) == [some |-> TRUE, value |-> value]

\* SubSection::new; an input section name is the list of its parts between
\* the dots: <<"", "payload", "data">> is ".payload.data".
SubSection_new(input_section_name, alignment_in_bytes, max_size) ==
    [input_section |-> input_section_name,
     alignment_in_bytes |-> alignment_in_bytes,
     max_size |-> max_size,
     mark_as_keep |-> FALSE]

\* SubSection::keep
keep(subsection) == [subsection EXCEPT !.mark_as_keep = TRUE]

\* Section::add_subsection
add_subsection(section, subsection) ==
    [section EXCEPT !.subsections = Append(@, subsection)]

\* The first declared Section mapped to `name` (0 when there is none).
first_section_mapped_to(secs, name) ==
    LET hits == {k \in 1..Len(secs) : secs[k].target_memory = name}
    IN  IF hits = {} THEN 0 ELSE CHOOSE k \in hits : \A h \in hits : k <= h

\* sections.iter_mut().rev() up to the first match: the index of the last
\* declared Section mapped to `name` (0 when there is none).
last_section_mapped_to(secs, name) ==
    LET hits == {k \in 1..Len(secs) : secs[k].target_memory = name}
    IN  IF hits = {} THEN 0 ELSE CHOOSE k \in hits : \A h \in hits : k >= h

\* The memory whose last Section gets the region's end alignment.
napot_target_name(region) ==
    IF region.sub_regions = <<>> THEN region.name
    ELSE region.sub_regions[Len(region.sub_regions)].name

\* A trailing test that takes every region for the last one.
is_trailing_always(regions, i) == TRUE

\* region_iter.peek().is_none(): region i is the last of the declaration.
is_trailing(regions, i) == i = Len(regions)

RECURSIVE region_loop(_, _, _, _)
\* The while loop of LinkerConfig::new over memory_regions from index i.
region_loop(regions, i, mems, secs) ==
    IF i > Len(regions) THEN [err |-> "ok", memories |-> mems, sections |-> secs]
    ELSE LET region == regions[i]
             fm == from_memory_region(region)
         IN  IF fm.err # "ok"
             THEN [err |-> fm.err, memories |-> <<>>, sections |-> <<>>]
             ELSE IF ~region.napot \/ is_trailing(regions, i)
             THEN region_loop(regions, i + 1, mems \o fm.memories, secs)
             ELSE LET k == last_section_mapped_to(secs, napot_target_name(region))
                  IN  IF k = 0
                      THEN [err |-> "napot_region_without_section",
                            memories |-> <<>>, sections |-> <<>>]
                      ELSE region_loop(regions, i + 1, mems \o fm.memories,
                               [secs EXCEPT ![k].end_alignment_in_bytes = region.length])

RECURSIVE insert_by_base(_, _)
\* m placed after every entry whose base is not greater (a stable insertion).
insert_by_base(sorted, m) ==
    IF sorted = <<>> THEN <<m>>
    ELSE IF sorted[Len(sorted)].base <= m.base THEN Append(sorted, m)
    ELSE Append(insert_by_base(SubSeq(sorted, 1, Len(sorted) - 1), m),
                sorted[Len(sorted)])

RECURSIVE sort_prefix(_, _)
sort_prefix(mems, n) ==
    IF n = 0 THEN <<>> ELSE insert_by_base(sort_prefix(mems, n - 1), mems[n])

\* A LinkerConfig::new that leaves the memories in declaration order.
sort_by_base_skipped(mems) == mems

\* memories.sort_by(|a, b| a.base.cmp(&b.base)): a stable sort by base.
sort_by_base(mems) == sort_prefix(mems, Len(mems))

is_stack_in_bss(loc) == loc # "SeparateSection"

\* LinkerConfig::new: the LinkerConfig fields, or the assertion that fails.
LinkerConfig_new(regions, secs, loc) ==
    LET looped == region_loop(regions, 1, <<>>, secs)
    IN  IF looped.err # "ok" THEN looped
        ELSE IF ~is_stack_in_bss(loc) /\ ~(\E k \in 1..Len(secs) : secs[k].ty = "stack")
        THEN [err |-> "no_stack_section", memories |-> <<>>, sections |-> <<>>]
        ELSE [err |-> "ok",
              memories |-> sort_by_base(looped.memories),
              sections |-> looped.sections]

(***************************************************************************)
(* linker.rs: LinkerSentence and the LinkerBuilder that emits the script.  *)
(***************************************************************************)
\* One LinkerSentence: its variant k, its symbol or name operands a and b, and
\* its numeric operands n and m.
Sentence(k, a, b, n, m) == [k |-> k, a |-> a, b |-> b, n |-> n, m |-> m]

section_entry_name(ty) == "." \o ty
section_entry_start_symbol(ty) == "_s" \o ty
section_entry_end_symbol(ty) == "_e" \o ty
memory_start_symbol(memory) == "_s" \o memory.name
memory_end_symbol(memory) == "_e" \o memory.name

default_sections(ty) ==
    CASE ty = "text" -> <<".text">>
      [] ty = "data" -> <<".data", ".sdata">>
      [] ty = "rodata" -> <<".rodata", ".srodata">>
      [] ty = "bss" -> <<".bss", ".sbss">>
      [] OTHER -> <<>>

input_sections(names) ==
    [i \in 1..Len(names) |-> Sentence("InputSections", names[i], "", 0, 0)]

stack_region_size(tc) == tc.per_hart_stack_size * tc.max_hart_count

stack_in_bss_alignment(loc, tc) ==
    IF loc = "InBssDefault" THEN 4096 ELSE tc.per_hart_stack_size

add_stack_section_contents(tc) ==
    << Sentence("SetToCurrent", section_entry_start_symbol("stack"), "", 0, 0),
       Sentence("AdvanceLocationCounter", "", "", stack_region_size(tc), 0),
       Sentence("SetToCurrent", "_stack_top", "", 0, 0),
       Sentence("SetToCurrent", section_entry_end_symbol("stack"), "", 0, 0) >>

\* LinkerBuilder::input_section
input_section(section, keep_it) ==
    Sentence("InputSections", section, IF keep_it THEN "KEEP" ELSE "", 0, 0)

RECURSIVE joined(_, _)
\* The parts of a name put together again with `sep` between them.
joined(parts, sep) ==
    IF parts = <<>> THEN ""
    ELSE IF Len(parts) = 1 THEN parts[1]
    ELSE parts[1] \o sep \o joined(Tail(parts), sep)

\* The symbol suffix of a SubSection: one leading `.` is dropped and every
\* other `.` becomes `_`.
section_symbol_suffix(ss) ==
    IF Len(ss.input_section) > 1 /\ ss.input_section[1] = ""
    THEN joined(Tail(ss.input_section), "_")
    ELSE joined(ss.input_section, "_")

\* The sentences of one SubSection; the assertion `a - b <= m` has n = 2.
subsection_information(ss) ==
    << Sentence("Align", "", "", ss.alignment_in_bytes, 0),
       Sentence("SetToCurrent", "_s" \o section_symbol_suffix(ss), "", 0, 0),
       input_section(joined(ss.input_section, "."), ss.mark_as_keep),
       Sentence("Align", "", "", ss.alignment_in_bytes, 0),
       Sentence("SetToCurrent", "_e" \o section_symbol_suffix(ss), "", 0, 0) >>
    \o (IF ss.max_size.some
        THEN << Sentence("Assert", "_e" \o section_symbol_suffix(ss),
                         "_s" \o section_symbol_suffix(ss), 2, ss.max_size.value) >>
        ELSE <<>>)

RECURSIVE subsections_from(_, _)
subsections_from(subsections, i) ==
    IF i > Len(subsections) THEN <<>>
    ELSE subsection_information(subsections[i]) \o subsections_from(subsections, i + 1)

\* LinkerBuilder::add_subsection_information: the SubSections in declaration order.
add_subsection_information(section) == subsections_from(section.subsections, 1)

block_start(section, noload) ==
    << Sentence("OutputSectionStart", section_entry_name(section.ty),
                IF noload THEN "NOLOAD" ELSE "", section.start_alignment_in_bytes, 0) >>

block_end(section) ==
    << Sentence("Align", "", "", section.end_alignment_in_bytes, 0),
       Sentence("SetToCurrent", section_entry_end_symbol(section.ty), "", 0, 0),
       Sentence("OutputSectionEnd", section.target_memory, "", 0, 0) >>

add_text_section(section, tc) ==
    block_start(section, FALSE)
    \o << Sentence("SetToCurrent", section_entry_start_symbol(section.ty), "", 0, 0) >>
    \o input_sections(<<".text.entry">>)
    \o (IF tc.custom_reset_config THEN input_sections(<<".text.custom_reset_entry">>)
        ELSE <<>>)
    \o input_sections(default_sections(section.ty))
    \o add_subsection_information(section)
    \o block_end(section)

add_rodata_section(section) ==
    block_start(section, FALSE)
    \o << Sentence("SetToCurrent", section_entry_start_symbol(section.ty), "", 0, 0) >>
    \o input_sections(default_sections(section.ty))
    \o add_subsection_information(section)
    \o block_end(section)

add_data_section(section) ==
    block_start(section, FALSE)
    \o << Sentence("SetToCurrent", section_entry_start_symbol(section.ty), "", 0, 0),
          Sentence("SetRelativeToLocationCounter", "_global_pointer", "", 2048, 0) >>
    \o input_sections(default_sections(section.ty))
    \o add_subsection_information(section)
    \o block_end(section)

add_stack_section(section, loc, tc) ==
    IF is_stack_in_bss(loc) THEN <<>>
    ELSE block_start(section, TRUE)
         \o add_stack_section_contents(tc)
         \o << Sentence("Align", "", "", section.end_alignment_in_bytes, 0),
               Sentence("OutputSectionEnd", section.target_memory, "", 0, 0) >>

add_bss_section(section, loc, tc) ==
    block_start(section, TRUE)
    \o << Sentence("SetToCurrent", section_entry_start_symbol(section.ty), "", 0, 0) >>
    \o input_sections(default_sections(section.ty))
    \o (IF is_stack_in_bss(loc)
        THEN << Sentence("Align", "", "", stack_in_bss_alignment(loc, tc), 0) >>
             \o add_stack_section_contents(tc)
        ELSE <<>>)
    \o block_end(section)

add_heap_section(section, tc) ==
    IF tc.heap_size = 0 THEN <<>>
    ELSE block_start(section, TRUE)
         \o << Sentence("SetToCurrent", section_entry_start_symbol(section.ty), "", 0, 0),
               Sentence("AdvanceLocationCounter", "", "", tc.heap_size, 0) >>
         \o block_end(section)

\* LinkerBuilder::add_custom_section: nothing for size 0; else a NOLOAD block
\* of `size` bytes when there is no SubSection, a loadable block of the
\* SubSections when there are some.
add_custom_section(section, size) ==
    IF size = 0 THEN <<>>
    ELSE block_start(section, section.subsections = <<>>)
         \o << Sentence("SetToCurrent", section_entry_start_symbol(section.ty), "", 0, 0) >>
         \o (IF section.subsections = <<>>
             THEN << Sentence("AdvanceLocationCounter", "", "", size, 0) >>
             ELSE add_subsection_information(section))
         \o block_end(section)

\* The match of LinkerBuilder::sections on the Section's type.
section_block(section, loc, tc) ==
    IF section.custom THEN add_custom_section(section, section.size)
    ELSE CASE section.ty = "text" -> add_text_section(section, tc)
           [] section.ty = "rodata" -> add_rodata_section(section)
           [] section.ty = "data" -> add_data_section(section)
           [] section.ty = "bss" -> add_bss_section(section, loc, tc)
           [] section.ty = "stack" -> add_stack_section(section, loc, tc)
           [] section.ty = "heap" -> add_heap_section(section, tc)

\* The index of the first Memory named `name` (0 when there is none).
memory_named(mems, name) ==
    LET hits == {i \in 1..Len(mems) : mems[i].name = name}
    IN  IF hits = {} THEN 0 ELSE CHOOSE i \in hits : \A h \in hits : i <= h

\* An add_section_to_memory that drops a Section whose memory is not found.
add_section_to_memory_lenient(mems, secs, k) ==
    LET i == memory_named(mems, secs[k].target_memory)
    IN  IF i = 0 THEN [err |-> "ok", memories |-> mems]
        ELSE [err |-> "ok",
              memories |-> [mems EXCEPT ![i].sections = Append(@, k)]]

\* LinkerBuilder::add_section_to_memory for Section k: it is pushed on the
\* first Memory with its target name, or the call panics.
add_section_to_memory(mems, secs, k) ==
    LET i == memory_named(mems, secs[k].target_memory)
    IN  IF i = 0 THEN [err |-> "target_memory_not_found", memories |-> mems]
        ELSE [err |-> "ok",
              memories |-> [mems EXCEPT ![i].sections = Append(@, k)]]

first_section_start_symbol(memory, secs) ==
    section_entry_start_symbol(secs[memory.sections[1]].ty)

last_section_end_symbol(memory, secs) ==
    section_entry_end_symbol(secs[memory.sections[Len(memory.sections)]].ty)

RECURSIVE sections_loop(_, _, _, _, _, _)
\* The for loop of LinkerBuilder::sections from Section k on.
sections_loop(mems, secs, k, out, loc, tc) ==
    IF k > Len(secs) THEN [err |-> "ok", memories |-> mems, sentences |-> out]
    ELSE LET added == add_section_to_memory(mems, secs, k)
         IN  IF added.err # "ok"
             THEN [err |-> added.err, memories |-> mems, sentences |-> <<>>]
             ELSE sections_loop(added.memories, secs, k + 1,
                                out \o section_block(secs[k], loc, tc), loc, tc)

\* LinkerBuilder::program_symbols: _sprogram and _eprogram bound to the first
\* and the last non-empty Memory.
program_symbols(mems, secs) ==
    LET full == {i \in 1..Len(mems) : mems[i].sections # <<>>}
    IN  IF full = {} THEN <<>>
        ELSE LET lo == CHOOSE i \in full : \A j \in full : i <= j
                 hi == CHOOSE i \in full : \A j \in full : i >= j
             IN  << Sentence("SetToSymbol", "_sprogram",
                             first_section_start_symbol(mems[lo], secs), 0, 0),
                    Sentence("SetToSymbol", "_eprogram",
                             last_section_end_symbol(mems[hi], secs), 0, 0) >>

RECURSIVE memory_symbols(_, _)
\* LinkerBuilder::memory_symbols for the first n memories.
memory_symbols(mems, n) ==
    IF n = 0 THEN <<>>
    ELSE memory_symbols(mems, n - 1)
         \o << Sentence("SetToValue", memory_start_symbol(mems[n]), "", mems[n].base, 0),
               Sentence("SetToValue", memory_end_symbol(mems[n]), "", 
                        mems[n].base + mems[n].length, 0) >>

RECURSIVE asserts_all_memories(_, _, _)
\* An asserts that does not skip the memories without a Section.
asserts_all_memories(mems, secs, n) ==
    IF n = 0 THEN <<>>
    ELSE asserts_all_memories(mems, secs, n - 1)
         \o << Sentence("Assert", memory_start_symbol(mems[n]),
                        IF mems[n].sections = <<>> THEN ""
                        ELSE first_section_start_symbol(mems[n], secs), 0, 0),
               Sentence("Assert", memory_end_symbol(mems[n]),
                        IF mems[n].sections = <<>> THEN ""
                        ELSE last_section_end_symbol(mems[n], secs), 1, 0) >>

RECURSIVE asserts(_, _, _)
\* LinkerBuilder::asserts for the first n memories: per non-empty Memory,
\* `a <= b` (n = 0) on its start and `a >= b` (n = 1) on its end.
asserts(mems, secs, n) ==
    IF n = 0 THEN <<>>
    ELSE asserts(mems, secs, n - 1)
         \o (IF mems[n].sections = <<>> THEN <<>>
             ELSE << Sentence("Assert", memory_start_symbol(mems[n]),
                              first_section_start_symbol(mems[n], secs), 0, 0),
                     Sentence("Assert", memory_end_symbol(mems[n]),
                              last_section_end_symbol(mems[n], secs), 1, 0) >>)

\* LinkerSentence::Memory as generate prints it: one line per Memory.
memory_table(mems) ==
    << Sentence("MemoryStart", "", "", 0, 0) >>
    \o [i \in 1..Len(mems) |->
          Sentence("MemoryLine", mems[i].name, "", mems[i].base, mems[i].length)]
    \o << Sentence("MemoryEnd", "", "", 0, 0) >>

\* The sentences write_linker_ld_file builds before it writes program.ld
\* (output_arch, entry, memory, sections, symbols, asserts), with the
\* memories as the section registration leaves them, or the panic.
linker_script(mems, secs, loc, tc) ==
    LET body == sections_loop(mems, secs, 1, <<>>, loc, tc)
    IN  IF body.err # "ok" THEN body
        ELSE [err |-> "ok",
              memories |-> body.memories,
              sentences |->
                  << Sentence("Comment", "", "", 0, 0),
                     Sentence("OutputArch", "riscv", "", 0, 0),
                     Sentence("Entry", "_start", "", 0, 0) >>
                  \o memory_table(mems)
                  \o << Sentence("SectionsStart", "", "", 0, 0) >>
                  \o body.sentences
                  \o << Sentence("DiscardSectionStart", "", "", 0, 0),
                        Sentence("InputSections", ".eh_frame", "", 0, 0),
                        Sentence("DiscardSectionEnd", "", "", 0, 0) >>
                  \o program_symbols(body.memories, secs)
                  \o memory_symbols(body.memories, Len(body.memories))
                  \o << Sentence("SectionsEnd", "", "", 0, 0) >>
                  \o asserts(body.memories, secs, Len(body.memories))]

(***************************************************************************)
(* target_config.rs and rt.rs: TrapFrame, TpBlock and RtConfig.            *)
(***************************************************************************)
\* RvXlen::bytes
bytes(rv_xlen) == IF rv_xlen = "Rv32" THEN 4 ELSE 8

\* TargetConfig::xlen_bytes
xlen_bytes(tc) == bytes(tc.rv_xlen)

\* The array RtConfig::new iterates over: F0 .. F31.
FloatingPointRegisters == [i \in 1..32 |-> "F" \o ToString(i - 1)]

\* struct TrapFrame: four lists, laid out in this order.
TrapFrame_new(general_regs, floating_point_registers, csrs, rt_state_values) ==
    [general_regs |-> general_regs,
     floating_point_registers |-> floating_point_registers,
     csrs |-> csrs,
     rt_state_values |-> rt_state_values]

TrapFrame_get_default ==
    TrapFrame_new(
        <<"Ra", "Sp", "Gp", "Tp", "T0", "T1", "T2", "S0", "S1",
          "A0", "A1", "A2", "A3", "A4", "A5", "A6", "A7",
          "S2", "S3", "S4", "S5", "S6", "S7", "S8", "S9", "S10", "S11",
          "T3", "T4", "T5", "T6">>,
        <<>>,
        <<"Status", "Epc", "Tval", "Cause">>,
        <<"RtFlags", "InterruptedTrapFrameAddr">>)

TpBlock_get_default ==
    <<"CurrentModeStack", "InterruptedModeStack", "InterruptedModeTp",
      "RustEntrypoint", "BootId", "HartId", "CurrContext", "ReturnAddr",
      "RtFlags", "TrapCtx">>

\* Vec::contains
contains(list, x) == \E i \in 1..Len(list) : list[i] = x

\* iter().enumerate() up to the first match: the 0-based index of x in list,
\* -1 where the loop ends without a match (the caller's unreachable!()).
first_idx(list, x) ==
    IF ~contains(list, x) THEN -1
    ELSE (CHOOSE i \in 1..Len(list) :
            list[i] = x /\ \A h \in 1..(i - 1) : list[h] # x) - 1

\* TpBlock::member_idx
member_idx(members, ty) == first_idx(members, ty)

element_count(tf) ==
    Len(tf.general_regs) + Len(tf.floating_point_registers)
        + Len(tf.csrs) + Len(tf.rt_state_values)

gr_start_idx(tf) == 0

fr_start_idx(tf) == Len(tf.general_regs)

\* A csr_start_idx that forgets the floating-point registers.
csr_start_idx_without_fp(tf) == Len(tf.general_regs)

csr_start_idx(tf) == Len(tf.general_regs) + Len(tf.floating_point_registers)

rt_state_start_idx(tf) ==
    Len(tf.general_regs) + Len(tf.floating_point_registers) + Len(tf.csrs)

gr_idx(tf, reg) ==
    IF first_idx(tf.general_regs, reg) = -1 THEN -1
    ELSE first_idx(tf.general_regs, reg) + gr_start_idx(tf)

\* The index create_trap_frame and restore_trap_frame use for the
\* floating-point register at position idx (from 0) of the list.
fr_idx(tf, idx) == idx + fr_start_idx(tf)

csr_idx(tf, reg) ==
    IF first_idx(tf.csrs, reg) = -1 THEN -1
    ELSE first_idx(tf.csrs, reg) + csr_start_idx(tf)

rt_state_idx(tf, val) ==
    IF first_idx(tf.rt_state_values, val) = -1 THEN -1
    ELSE first_idx(tf.rt_state_values, val) + rt_state_start_idx(tf)

RECURSIVE push_missing(_, _, _)
\* The for loop of RtConfig::new over the first n entries of `all`: each one
\* the list does not contain is pushed.
push_missing(list, all, n) ==
    IF n = 0 THEN list
    ELSE LET sofar == push_missing(list, all, n - 1)
         IN  IF contains(sofar, all[n]) THEN sofar ELSE Append(sofar, all[n])

\* An RtConfig::new that pushes F0 .. F31 and Fcsr without looking.
RtConfig_new_push_always(tf, floating_point_support) ==
    [constructed |-> TRUE,
     floating_point_support |-> floating_point_support,
     trap_frame |->
        IF ~floating_point_support THEN tf
        ELSE [tf EXCEPT
                !.floating_point_registers = @ \o FloatingPointRegisters,
                !.csrs = Append(@, "Fcsr")]]

\* RtConfig::new: with floating-point support the trap frame is extended by
\* the floating-point registers and by Fcsr it does not hold yet.
RtConfig_new(tf, floating_point_support) ==
    [constructed |-> TRUE,
     floating_point_support |-> floating_point_support,
     trap_frame |->
        IF ~floating_point_support THEN tf
        ELSE [tf EXCEPT
                !.floating_point_registers =
                    push_missing(@, FloatingPointRegisters, Len(FloatingPointRegisters)),
                !.csrs = push_missing(@, <<"Fcsr">>, 1)]]

\* No RtConfig yet.
NoRtConfig ==
    [constructed |-> FALSE,
     floating_point_support |-> FALSE,
     trap_frame |-> TrapFrame_new(<<>>, <<>>, <<>>, <<>>)]

\* RtConfig::trap_frame_size
trap_frame_size(rt, tc) == element_count(rt.trap_frame) * xlen_bytes(tc)

align_up(val, align_to) == ((val + align_to - 1) \div align_to) * align_to

\* An unwinding by the frame's size as it is, not rounded.
aligned_trap_frame_size_unrounded(size) == size

\* aligned_trap_frame_size
aligned_trap_frame_size(size) == align_up(size, 16)

\* The assertion of AsmBuilder::addi on its immediate.
addi_in_range(imm) == imm \in -2048..2047

\* The panic restore_trap_frame ends in, "ok" when it emits its code.
restore_trap_frame(rt, tc) ==
    LET tf == rt.trap_frame
    IN  IF csr_idx(tf, "Status") = -1 THEN "unreachable"
        ELSE IF ~addi_in_range(aligned_trap_frame_size(trap_frame_size(rt, tc)))
        THEN "immediate_out_of_range"
        ELSE IF rt_state_idx(tf, "RtFlags") = -1 THEN "unreachable"
        ELSE IF rt_state_idx(tf, "InterruptedTrapFrameAddr") = -1 THEN "unreachable"
        ELSE IF first_idx(tf.general_regs, "Sp") = 0 THEN "sp_at_idx_0"
        ELSE IF gr_idx(tf, "Sp") = -1 THEN "unreachable"
        ELSE "ok"

\* The panic switch_to ends in: it stores tp at tp_reg_offset.
switch_to(rt) ==
    IF gr_idx(rt.trap_frame, "Tp") = -1 THEN "unreachable" ELSE "ok"

\* The panic create_trap_frame ends in.
create_trap_frame(rt, tc) ==
    LET tf == rt.trap_frame
    IN  IF ~addi_in_range(-trap_frame_size(rt, tc)) THEN "immediate_out_of_range"
        ELSE IF gr_idx(tf, "Sp") = -1 \/ gr_idx(tf, "Ra") = -1 \/ gr_idx(tf, "Tp") = -1
        THEN "unreachable"
        ELSE IF rt_state_idx(tf, "RtFlags") = -1 THEN "unreachable"
        ELSE IF rt_state_idx(tf, "InterruptedTrapFrameAddr") = -1 THEN "unreachable"
        ELSE "ok"

\* The code generation of write_boot_s_file, which comes before its
\* fw.write(): restore_trap_frame, then the helpers (switch_to), then
\* create_trap_frame; the first panic ends it.
boot_s_generation(rt, tc) ==
    IF restore_trap_frame(rt, tc) # "ok" THEN restore_trap_frame(rt, tc)
    ELSE IF switch_to(rt) # "ok" THEN switch_to(rt)
    ELSE create_trap_frame(rt, tc)

(***************************************************************************)
(* rt.rs: the assembly write_boot_s_file generates.  A sentence is kept as *)
(* its mnemonic, the operands that matter below and its immediate;         *)
(* comments, labels and directives are left out.                           *)
(***************************************************************************)
\* TargetConfig::is_multi_hart
is_multi_hart(tc) == tc.max_hart_count > 1

\* HartConfig::multihart_reset_handling_required
multihart_reset_handling_required(tc) ==
    tc.all_harts_start_at_reset_vector /\ tc.max_hart_count > 1

\* RvMode::as_pp: MPP as M-mode, SPP as S-mode.
as_pp(rv_mode) == IF rv_mode = "MMode" THEN 6144 ELSE 256

\* RtConfig::new with its remaining arguments: the RtConfig the generated
\* code is made for.
RtConfig_new_with(tf, tp_block, tc, skip_bss_clearing, stack_overflow_detection, supports_atomic_extension, floating_point_support, sfence_on_trapframe_restore_feature) ==
    [constructed |-> TRUE,
     floating_point_support |-> floating_point_support,
     trap_frame |-> RtConfig_new(tf, floating_point_support).trap_frame,
     tp_block |-> tp_block,
     target_config |-> tc,
     skip_bss_clearing |-> skip_bss_clearing,
     stack_overflow_detection |-> stack_overflow_detection,
     supports_atomic_extension |-> supports_atomic_extension,
     sfence_on_trapframe_restore_feature |-> sfence_on_trapframe_restore_feature]

\* RtConfig::*_offset of a TpBlock member.
tp_block_offset(rt, member) ==
    member_idx(rt.tp_block, member) * xlen_bytes(rt.target_config)

\* RtConfig::*_offset of the trap frame slot idx.
frame_offset(rt, idx) == idx * xlen_bytes(rt.target_config)

\* An AsmSentence with an immediate.
Ins(op, imm) == [op |-> op, args |-> <<>>, imm |-> imm]

\* An AsmSentence whose operands matter.
InsOn(op, args) == [op |-> op, args |-> args, imm |-> 0]

RECURSIVE Flatten(_)
\* The sentences of a loop whose every round adds the sentences ss[i].
Flatten(ss) ==
    IF ss = <<>> THEN <<>>
    ELSE IF Len(ss) = 1 THEN ss[1]
    ELSE Flatten(SubSeq(ss, 1, Len(ss) \div 2))
         \o Flatten(SubSeq(ss, Len(ss) \div 2 + 1, Len(ss)))

\* hart_count_error_handling, after the amoadd of determine_boot_id.
hart_count_error_handling(rt) ==
    << Ins("li_constrained", rt.target_config.max_hart_count),
       InsOn("bltu", <<"boot_id", "max_hart_count">>),
       InsOn("la", <<"park_addr", "_park_hart">>),
       InsOn("jr", <<"park_addr">>) >>

\* A determine_boot_id that takes the atomic only where harts share the
\* reset vector.
determine_boot_id_shared_only(rt) ==
    IF multihart_reset_handling_required(rt.target_config)
    THEN << InsOn("la", <<"boot_id", "boot_idx">>),
            Ins("li_constrained", 1),
            InsOn("amoadd", <<"boot_id", "boot_id", "inc">>) >>
         \o hart_count_error_handling(rt)
    ELSE << InsOn("add", <<"boot_id", "zero", "zero">>) >>

\* determine_boot_id: amoadd on boot_idx and the bounds check on a multi-hart
\* target, mov boot_id, zero otherwise.
determine_boot_id(rt) ==
    IF is_multi_hart(rt.target_config)
    THEN << InsOn("la", <<"boot_id", "boot_idx">>),
            Ins("li_constrained", 1),
            InsOn("amoadd", <<"boot_id", "boot_id", "inc">>) >>
         \o hart_count_error_handling(rt)
    ELSE << InsOn("add", <<"boot_id", "zero", "zero">>) >>

\* init_stack_pointer_using_boot_id: sp = _stack_top - hart_stack_size * boot_id.
init_stack_pointer_using_boot_id(rt) ==
    << Ins("li", rt.target_config.per_hart_stack_size),
       InsOn("mul", <<"sub", "sub", "boot_id">>),
       InsOn("la", <<"sp", "_stack_top">>),
       InsOn("sub", <<"sp", "sp", "sub">>) >>

\* init_fp
init_fp(rt) ==
    << InsOn("csrr", <<"status_reg", "Status">>), Ins("li", -24577),
       InsOn("and", <<>>), Ins("li", 16384), InsOn("or", <<>>),
       InsOn("csrw", <<"Status", "status_reg">>), InsOn("csrw", <<"Fcsr", "zero">>) >>
    \o [i \in 1..Len(rt.trap_frame.floating_point_registers) |->
          InsOn("fmv", <<rt.trap_frame.floating_point_registers[i], "zero">>)]

\* common_hart_init: the custom reset call, determine_boot_id, read_hart_id,
\* init_stack_pointer_using_boot_id, zero_trap_csrs, write_epc, write_status,
\* write_tvec, write_scratch, write_sptp, write_init_rtflags and init_fp.
common_hart_init(rt) ==
    LET tc == rt.target_config
    IN  (IF tc.custom_reset_config
         THEN << InsOn("la", <<"rs", "custom_reset">>), Ins("jalr", 0) >>
         ELSE <<>>)
        \o determine_boot_id(rt)
        \o << IF tc.rv_mode = "MMode" THEN InsOn("csrr", <<"hart_id", "Mhartid">>)
              ELSE InsOn("add", <<"hart_id", "A0", "zero">>) >>
        \o init_stack_pointer_using_boot_id(rt)
        \o << InsOn("csrw", <<"Ie", "zero">>) >>
        \o (IF tc.rv_mode = "MMode"
            THEN << InsOn("csrw", <<"Mideleg", "zero">>),
                    InsOn("csrw", <<"Medeleg", "zero">>) >>
            ELSE <<>>)
        \o << InsOn("la", <<"reg", "_park_hart">>), InsOn("csrw", <<"Epc", "reg">>),
              Ins("li", as_pp(tc.rv_mode)), InsOn("csrc", <<"Status", "reg">>),
              Ins("li", as_pp(tc.rv_mode)), InsOn("csrs", <<"Status", "reg">>),
              InsOn("la", <<"reg", "handle_trap">>), InsOn("csrw", <<"Tvec", "reg">>),
              InsOn("la", <<"Tp", "tp_block">>),
              Ins("li_constrained", Len(rt.tp_block) * xlen_bytes(tc)),
              InsOn("mul", <<"reg", "reg", "boot_id">>),
              InsOn("add", <<"Tp", "Tp", "reg">>),
              Ins("store", tp_block_offset(rt, "BootId")),
              Ins("store", tp_block_offset(rt, "HartId")),
              InsOn("csrw", <<"Scratch", "Tp">>),
              Ins("store", tp_block_offset(rt, "InterruptedModeStack")),
              Ins("store", tp_block_offset(rt, "CurrentModeStack")),
              Ins("store", tp_block_offset(rt, "RtFlags")) >>
        \o (IF rt.floating_point_support THEN init_fp(rt) ELSE <<>>)

\* zero_bss: the zeroing loop and, on a multi-hart target, the store of 1 to
\* bss_init_done; nothing with skip_bss_clearing.
zero_bss(rt) ==
    IF rt.skip_bss_clearing THEN <<>>
    ELSE << InsOn("la", <<"start_reg", "_sbss">>), InsOn("la", <<"end_reg", "_ebss">>),
            InsOn("bgeu", <<"start_reg", "end_reg">>),
            Ins("store", 0),
            Ins("addi", xlen_bytes(rt.target_config)),
            InsOn("bltu", <<"start_reg", "end_reg">>) >>
         \o (IF is_multi_hart(rt.target_config)
             THEN << InsOn("la", <<"addr_reg", "bss_init_done">>),
                     Ins("li_constrained", 1), Ins("store", 0) >>
             ELSE <<>>)

\* wait_for_bss_init_done
wait_for_bss_init_done(rt) ==
    IF rt.skip_bss_clearing THEN <<>>
    ELSE << InsOn("la", <<"addr_reg", "bss_init_done">>), Ins("load", 0),
            InsOn("beqz", <<"val_reg">>) >>

\* jump_to_rust_entrypoint: write_entrypoint_in_tp, then the jump to
\* protect_stack or to jump_to_rust.
jump_to_rust_entrypoint(rt, entrypoint) ==
    << InsOn("la", <<"reg", entrypoint>>),
       Ins("store", tp_block_offset(rt, "RustEntrypoint")),
       InsOn("j", << IF rt.stack_overflow_detection THEN "protect_stack"
                     ELSE "jump_to_rust" >>) >>

\* build_multi_hart_start, or build_boot_hart_start followed on a multi-hart
\* target by build_secondary_hart_start.
build_start(rt) ==
    IF multihart_reset_handling_required(rt.target_config)
    THEN common_hart_init(rt)
         \o << InsOn("beqz", <<"boot_id">>), InsOn("la", <<"reg", "_secondary_start">>),
               InsOn("jr", <<"reg">>) >>
         \o zero_bss(rt)
         \o jump_to_rust_entrypoint(rt, "BootHart")
         \o wait_for_bss_init_done(rt)
         \o jump_to_rust_entrypoint(rt, "NonBootHart")
    ELSE common_hart_init(rt)
         \o zero_bss(rt)
         \o jump_to_rust_entrypoint(rt, "BootHart")
         \o (IF is_multi_hart(rt.target_config)
             THEN common_hart_init(rt)
                  \o wait_for_bss_init_done(rt)
                  \o jump_to_rust_entrypoint(rt, "NonBootHart")
             ELSE <<>>)

\* protect_stack_section: stack_bottom = sp - hart_stack_size, the sentry
\* value stored there, then the jump to jump_to_rust.
protect_stack_section(rt) ==
    << InsOn("add", <<"stack_bottom", "Sp", "zero">>),
       Ins("li", rt.target_config.per_hart_stack_size),
       InsOn("sub", <<"stack_bottom", "stack_bottom", "sub">>),
       InsOn("li", <<"sentry_value", "SENTRY_VALUE">>),
       Ins("store", 0),
       InsOn("j", <<"jump_to_rust">>) >>

\* check_stack, with get_stack_bottom:
\* stack_bottom = _stack_top - hart_stack_size * (boot_id + 1).
check_stack(rt) ==
    << Ins("li", rt.target_config.per_hart_stack_size),
       Ins("load", tp_block_offset(rt, "BootId")),
       Ins("addi", 1),
       InsOn("mul", <<"sub", "sub", "offset">>),
       InsOn("la", <<"stack_bottom", "_stack_top">>),
       InsOn("sub", <<"stack_bottom", "stack_bottom", "sub">>),
       Ins("load", 0),
       InsOn("li", <<"sentry_value", "SENTRY_VALUE">>),
       InsOn("beq", <<"value_reg", "sentry_value">>),
       InsOn("la", <<"rs", "StackOverflow">>), InsOn("la", <<"Ra", "_park_hart">>),
       InsOn("add", <<"A0", "sentry_value", "zero">>),
       InsOn("add", <<"A1", "value_reg", "zero">>),
       InsOn("jr", <<"rs">>) >>

\* A restore_from_trap_frame under which no CSR is taken from the frame.
restore_from_trap_frame_never(csr) == FALSE

\* Csr::restore_from_trap_frame
restore_from_trap_frame(csr) == csr \notin {"Cause", "Tval"}

\* The sentences of restore_trap_frame.
restore_trap_frame_asm(rt) ==
    LET tf == rt.trap_frame
        rt_flags == Ins("load", frame_offset(rt, rt_state_idx(tf, "RtFlags")))
    IN  (IF rt.stack_overflow_detection THEN check_stack(rt) ELSE <<>>)
        \o << Ins("load", frame_offset(rt, csr_idx(tf, "Status"))),
              Ins("li", as_pp(rt.target_config.rv_mode)),
              InsOn("and", <<"status", "status", "pp">>),
              InsOn("beq", <<"status", "pp">>),
              Ins("addi", aligned_trap_frame_size(trap_frame_size(rt, rt.target_config))),
              Ins("store", tp_block_offset(rt, "CurrentModeStack")),
              InsOn("csrw", <<"Scratch", "Tp">>),
              rt_flags, Ins("andi", 1), InsOn("beqz", <<"temp_reg", "restore_csr">>),
              Ins("load", frame_offset(rt, rt_state_idx(tf, "InterruptedTrapFrameAddr"))),
              Ins("store", tp_block_offset(rt, "TrapCtx")) >>
        \o (IF rt.sfence_on_trapframe_restore_feature
            THEN << rt_flags, Ins("andi", 4), InsOn("beqz", <<"temp_reg", "no_sfence">>),
                    InsOn("sfence", <<"zero", "zero">>) >>
            ELSE <<>>)
        \o (IF rt.floating_point_support
            THEN << rt_flags, Ins("andi", 2), InsOn("beqz", <<"temp_reg", "fs_clean">>) >>
                 \o [i \in 1..Len(tf.floating_point_registers) |->
                       Ins("fload", frame_offset(rt, fr_idx(tf, i - 1)))]
                 \o << rt_flags, Ins("andi", -3),
                       Ins("store", frame_offset(rt, rt_state_idx(tf, "RtFlags"))) >>
            ELSE <<>>)
        \o Flatten([i \in 1..Len(tf.csrs) |->
              IF restore_from_trap_frame(tf.csrs[i])
              THEN << Ins("load", frame_offset(rt, i - 1 + csr_start_idx(tf))),
                      InsOn("csrw", <<tf.csrs[i], "temp_reg">>) >>
              ELSE <<>>])
        \o Flatten([i \in 1..Len(tf.general_regs) |->
              IF tf.general_regs[i] = "Sp" THEN <<>>
              ELSE << Ins("load", frame_offset(rt, i - 1 + gr_start_idx(tf))) >>
                   \o (IF rt.supports_atomic_extension /\ i = 1
                       THEN << InsOn("sc", <<"zero", tf.general_regs[i], "Sp">>) >>
                       ELSE <<>>)])
        \o << Ins("load", frame_offset(rt, gr_idx(tf, "Sp"))), InsOn("mret", <<>>) >>

\* The sentences of handle_trap.
handle_trap(rt) ==
    << InsOn("csrrw", <<"Tp", "Scratch", "Tp">>), InsOn("bnez", <<"Tp", "not_nested">>),
       InsOn("csrr", <<"Tp", "Scratch">>),
       Ins("store", tp_block_offset(rt, "CurrentModeStack")),
       Ins("addi", 1),
       Ins("store", tp_block_offset(rt, "RtFlags")),
       Ins("load", tp_block_offset(rt, "CurrentModeStack")),
       InsOn("j", <<"jump_ahead">>),
       Ins("store", tp_block_offset(rt, "RtFlags")),
       Ins("store", tp_block_offset(rt, "InterruptedModeStack")),
       InsOn("csrr", <<"Sp", "Scratch">>),
       Ins("store", tp_block_offset(rt, "InterruptedModeTp")),
       InsOn("la", <<"Sp", "Trap">>),
       Ins("store", tp_block_offset(rt, "RustEntrypoint")),
       Ins("load", tp_block_offset(rt, "CurrentModeStack")),
       InsOn("j", <<"jump_to_rust">>) >>

\* The sentences of goto_rust_entrypoint.
goto_rust_entrypoint(rt) ==
    << Ins("store", tp_block_offset(rt, "ReturnAddr")),
       InsOn("jal", <<"create_trap_frame">>),
       InsOn("la", <<"Gp", "_global_pointer">>),
       Ins("store", tp_block_offset(rt, "TrapCtx")),
       Ins("load", tp_block_offset(rt, "RustEntrypoint")),
       InsOn("la", <<"Ra", "restore_trap_frame">>),
       InsOn("jr", <<"reg">>) >>

\* write_asm_helpers: the id, trap frame address and tp block getters, then
\* switch_to (the thread context's priv_ctx is its first member).
write_asm_helpers(rt) ==
    << Ins("load", tp_block_offset(rt, "BootId")), InsOn("jr", <<"Ra">>),
       Ins("load", tp_block_offset(rt, "HartId")), InsOn("jr", <<"Ra">>),
       Ins("load", tp_block_offset(rt, "TrapCtx")), InsOn("jr", <<"Ra">>),
       InsOn("add", <<"A0", "Tp", "zero">>), InsOn("jr", <<"Ra">>),
       InsOn("la", <<"A0", "tp_block">>), InsOn("jr", <<"Ra">>),
       InsOn("la", <<"A0", "restore_trap_frame">>), InsOn("jr", <<"Ra">>),
       Ins("store", tp_block_offset(rt, "InterruptedModeStack")),
       Ins("store", tp_block_offset(rt, "InterruptedModeTp")),
       InsOn("csrw", <<"Epc", "Ra">>),
       Ins("store", tp_block_offset(rt, "ReturnAddr")),
       Ins("addi", 1),
       Ins("store", tp_block_offset(rt, "RtFlags")),
       Ins("load", tp_block_offset(rt, "InterruptedModeStack")),
       InsOn("jal", <<"create_trap_frame">>),
       Ins("load", tp_block_offset(rt, "CurrContext")),
       Ins("store", 0),
       Ins("store", tp_block_offset(rt, "CurrContext")),
       Ins("store", tp_block_offset(rt, "CurrentModeStack")),
       Ins("load", 0),
       Ins("store", 0),
       Ins("store", frame_offset(rt, gr_idx(rt.trap_frame, "Tp"))),
       InsOn("j", <<"restore_trap_frame">>) >>

\* The sentences of create_trap_frame.
create_trap_frame_asm(rt) ==
    LET tf == rt.trap_frame
    IN  << Ins("addi", -trap_frame_size(rt, rt.target_config)), Ins("andi", -16) >>
        \o Flatten([i \in 1..Len(tf.general_regs) |->
              IF tf.general_regs[i] \notin {"Sp", "Tp", "Ra"}
              THEN << Ins("store", frame_offset(rt, i - 1 + gr_start_idx(tf))) >>
              ELSE <<>>])
        \o (IF rt.floating_point_support
            THEN << InsOn("csrr", <<"status_reg", "Status">>), Ins("li", 24576),
                    InsOn("and", <<"temp_reg", "status_reg", "mask_reg">>),
                    InsOn("bne", <<"temp_reg", "mask_reg", "fs_clean">>) >>
                 \o [i \in 1..Len(tf.floating_point_registers) |->
                       Ins("fstore", frame_offset(rt, fr_idx(tf, i - 1)))]
                 \o << Ins("xori", -1), InsOn("and", <<"temp_reg", "mask_reg", "status_reg">>),
                       Ins("li", 16384), InsOn("or", <<"status_reg", "temp_reg", "mask_reg">>),
                       InsOn("csrw", <<"Status", "status_reg">>),
                       Ins("load", tp_block_offset(rt, "RtFlags")), Ins("li", 2),
                       InsOn("or", <<"temp_reg", "temp_reg", "mask_reg">>),
                       Ins("store", tp_block_offset(rt, "RtFlags")) >>
            ELSE <<>>)
        \o << Ins("load", tp_block_offset(rt, "InterruptedModeStack")),
              Ins("store", frame_offset(rt, gr_idx(tf, "Sp"))),
              Ins("load", tp_block_offset(rt, "ReturnAddr")),
              Ins("store", frame_offset(rt, gr_idx(tf, "Ra"))),
              Ins("load", tp_block_offset(rt, "InterruptedModeTp")),
              Ins("store", frame_offset(rt, gr_idx(tf, "Tp"))),
              InsOn("csrw", <<"Scratch", "zero">>) >>
        \o Flatten([i \in 1..Len(tf.csrs) |->
              << InsOn("csrr", <<"temp_reg", tf.csrs[i]>>),
                 Ins("store", frame_offset(rt, i - 1 + csr_start_idx(tf))) >>])
        \o << Ins("load", tp_block_offset(rt, "RtFlags")),
              Ins("store", frame_offset(rt, rt_state_idx(tf, "RtFlags"))),
              Ins("store", tp_block_offset(rt, "RtFlags")),
              Ins("load", tp_block_offset(rt, "TrapCtx")),
              Ins("store", frame_offset(rt, rt_state_idx(tf, "InterruptedTrapFrameAddr"))),
              InsOn("ret", <<>>) >>

\* A builder none of whose instructions asserts on its immediate.
imm_asserted_never(op) == FALSE

\* The instructions whose AsmBuilder function asserts that the immediate is
\* in -2048..=2047: li_constrained, addi, xori and andi.
imm_asserted(op) == op \in {"li_constrained", "addi", "xori", "andi"}

\* AsmBuilder::new
AsmBuilder_new(rt) ==
    [rt_config |-> rt, sentences |-> <<>>, panicked |-> FALSE, at |-> "new"]

\* No AsmBuilder.
NoAsmBuilder ==
    [rt_config |-> NoRtConfig, sentences |-> <<>>, panicked |-> FALSE, at |-> "none"]

\* The calls of the AsmBuilder functions that add the sentences code, one
\* add_sentence each: the first failed assertion panics, with the sentences
\* before it added.
add_sentences(b, code, to) ==
    LET bad == {i \in 1..Len(code) :
                  imm_asserted(code[i].op) /\ ~addi_in_range(code[i].imm)}
    IN  IF bad = {}
        THEN [b EXCEPT !.sentences = @ \o code, !.at = to]
        ELSE LET first == CHOOSE i \in bad : \A j \in bad : i <= j
             IN  [b EXCEPT !.sentences = @ \o SubSeq(code, 1, first - 1),
                           !.panicked = TRUE, !.at = "panicked"]

\* The whole of the code generation of write_boot_s_file.
boot_s_code(rt) ==
    build_start(rt)
    \o (IF rt.stack_overflow_detection THEN protect_stack_section(rt) ELSE <<>>)
    \o << InsOn("wfi", <<>>), InsOn("j", <<"_park_hart">>) >>
    \o restore_trap_frame_asm(rt)
    \o handle_trap(rt)
    \o goto_rust_entrypoint(rt)
    \o write_asm_helpers(rt)
    \o create_trap_frame_asm(rt)

\* Nothing is generated and no hart runs.
IdleMachine ==
    /\ asm = NoAsmBuilder
    /\ harts = << >>
    /\ ram = << >>

(***************************************************************************)
(* The declarations LinkerConfig::new is given.                            *)
(***************************************************************************)
Digits == <<"1", "2", "3", "4", "5", "6", "7", "8">>

\* (base, length) of the declared regions: a naturally aligned power of two,
\* a power of two at a misaligned base, and a length that is no power of two.
Geoms == {<<8, 8>>, <<4, 8>>, <<0, 6>>}

SubLengths == {2, 4}

\* SubRegion::new, the name given by NameRegions below.
SubRegion_new(length, napot) == [name |-> "", length |-> length, napot |-> napot]

\* MemoryRegion::new, the name given by NameRegions below.
MemoryRegion_new(base, length, napot, sub_regions) ==
    [name |-> "", base |-> base, length |-> length, napot |-> napot,
     sub_regions |-> sub_regions]

RECURSIVE Shapes(_)
\* The lists of region sizes (a region of size k makes k Memory entries: it
\* has k - 1 sub-regions) that make at most m Memory entries.
Shapes(m) ==
    {<<>>} \cup UNION { { <<k>> \o rest : rest \in Shapes(m - k) } : k \in 1..m }

RECURSIVE SubsBefore(_, _)
\* The number of sub-regions of the first i regions of shape.
SubsBefore(shape, i) ==
    IF i = 0 THEN 0 ELSE SubsBefore(shape, i - 1) + shape[i] - 1

\* The region list of a shape: region i has geometry geom[i] and flag
\* napot[i], and its sub-regions are the next shape[i] - 1 entries of subs.
RegionsOfShape(shape, geom, napot, subs) ==
    [i \in 1..Len(shape) |->
        MemoryRegion_new(geom[i][1], geom[i][2], napot[i],
            [j \in 1..(shape[i] - 1) |->
                LET s == subs[SubsBefore(shape, i - 1) + j]
                IN  SubRegion_new(s[1], s[2])])]

\* Region i is named region_i and its j-th sub-region region_i_sub_j: the
\* names of one declaration are pairwise distinct.
NameRegions(regions) ==
    [i \in 1..Len(regions) |->
        [regions[i] EXCEPT
            !.name = "region_" \o Digits[i],
            !.sub_regions = [j \in 1..Len(regions[i].sub_regions) |->
                [regions[i].sub_regions[j] EXCEPT
                    !.name = "region_" \o Digits[i] \o "_sub_" \o Digits[j]]]]]

RECURSIVE DeclaredNames(_, _)
\* The names of the first n regions and of their sub-regions, in declaration order.
DeclaredNames(regions, n) ==
    IF n = 0 THEN <<>>
    ELSE DeclaredNames(regions, n - 1) \o <<regions[n].name>>
         \o [j \in 1..Len(regions[n].sub_regions) |-> regions[n].sub_regions[j].name]

SectionTypes == <<"text", "rodata", "data", "bss", "heap">>

\* The k-th declared Section is of the k-th type.
SectionsOn(targets) ==
    [k \in 1..Len(targets) |->
        Section_new(SectionTypes[((k - 1) % Len(SectionTypes)) + 1],
                    SectionAlignment, targets[k])]

\* rv-runtime-test/build.rs: the TargetConfig of the test firmware.
TestTargetConfig ==
    [rv_xlen |-> "Rv64", max_hart_count |-> 4, per_hart_stack_size |-> 8192,
     heap_size |-> 4096, custom_reset_config |-> TRUE]

\* The regions of the test firmware's build script: region_1 (128 KiB, no
\* sub-region) and region_2 (64 KiB, made of 56 KiB and a NAPOT 8 KiB).
TestRegionsOfSize(k) ==
    IF k = 1 THEN { MemoryRegion_new(0, 128 * KiB, napot, <<>>) : napot \in BOOLEAN }
    ELSE IF k = 3
    THEN { MemoryRegion_new(0, 64 * KiB, napot,
               <<SubRegion_new(56 * KiB, FALSE), SubRegion_new(8 * KiB, TRUE)>>)
           : napot \in BOOLEAN }
    ELSE {}

RECURSIVE TestRegionSeqs(_)
\* The lists of test regions that make at most m Memory entries.
TestRegionSeqs(m) ==
    {<<>>} \cup UNION { { <<r>> \o rest : r \in TestRegionsOfSize(k),
                                          rest \in TestRegionSeqs(m - k) }
                        : k \in 1..m }

\* 0x4000_0000: the test firmware's first region starts at 0x8000_0000, one
\* more than the largest integer TLC represents; the alignment of the regions
\* to their lengths is the same at both.
TestBase == 1073741824

\* The test regions laid out 128 KiB apart from TestBase, in declaration order.
PlaceRegions(regions) ==
    [i \in 1..Len(regions) |->
        [regions[i] EXCEPT !.base = TestBase + (i - 1) * 128 * KiB]]

\* The declaration of the test firmware's build script: region_1 and the
\* composite region_2, both NAPOT, with text and rodata on region_1 and data,
\* bss and heap on the first sub-region of region_2.
TestMemoryRegions ==
    NameRegions(PlaceRegions(
        << MemoryRegion_new(0, 128 * KiB, TRUE, <<>>),
           MemoryRegion_new(0, 64 * KiB, TRUE,
               <<SubRegion_new(56 * KiB, FALSE), SubRegion_new(8 * KiB, TRUE)>>) >>))

TestSectionTargets ==
    <<"region_1", "region_1", "region_2_sub_1", "region_2_sub_1", "region_2_sub_1">>

\* A trap frame with the least the build script can start from.
MinimalFrame == TrapFrame_new(<<>>, <<>>, <<"Status">>, <<"RtFlags">>)

\* What the build script may push on the lists of its TrapFrame.
PushedGeneralRegisters == {"Ra", "Sp", "Tp"}
PushedFloatingPointRegisters == {"F31", "F0", "F1"}
PushedCsrs == {"Fcsr", "Scratch"}
PushedRtStateValues == {"RtFlags", "InterruptedTrapFrameAddr"}

\* The trap frames handed to write_rv_runtime_files: the default one and
\* frames that name fewer registers or name them in another order.
FrameInputs ==
    { TrapFrame_new(gr, fr, csrs, rt) :
        gr \in {TrapFrame_get_default.general_regs,
                <<"Ra", "Sp", "Tp">>, <<"Sp", "Ra", "Tp">>, <<"Ra", "Tp">>},
        fr \in {<<>>, <<"F1", "F0">>},
        csrs \in {TrapFrame_get_default.csrs, <<"Epc">>},
        rt \in {TrapFrame_get_default.rt_state_values, <<"RtFlags">>} }

InitLinker ==
    /\ pc = "declared"
    /\ stack_location = "InBssNatural"
    /\ memories = <<>>
    /\ sections = <<>>
    /\ sentences = <<>>
    /\ files = {}
    /\ emissions = 0
    /\ err = "ok"

\* The RtConfig side of the test firmware's build script, before RtConfig::new.
InitRt ==
    /\ target_config = TestTargetConfig
    /\ trap_frame = TrapFrame_get_default
    /\ pushes = 0
    /\ rt_config = NoRtConfig

\* Every geometry within the bounds, each Memory the target of one Section.
Init ==
    /\ \E shape \in Shapes(MaxMemories) \ {<<>>} :
         \E geom \in [1..Len(shape) -> Geoms], napot \in [1..Len(shape) -> BOOLEAN],
            subs \in [1..SubsBefore(shape, Len(shape)) -> SubLengths \X BOOLEAN] :
           memory_regions = NameRegions(RegionsOfShape(shape, geom, napot, subs))
    /\ decl_sections = SectionsOn(DeclaredNames(memory_regions, Len(memory_regions)))
    /\ InitLinker
    /\ IdleMachine
    /\ InitRt

\* The test firmware's regions, with every placement of up to MaxSections
\* Sections on the declared memories or on an undeclared one.
InitSections ==
    /\ memory_regions \in { NameRegions(PlaceRegions(rs)) :
                              rs \in TestRegionSeqs(MaxMemories) \ {<<>>} }
    /\ \E n \in 1..MaxSections :
         decl_sections \in
           { SectionsOn(t) :
               t \in [1..n -> Range(DeclaredNames(memory_regions, Len(memory_regions)))
                              \cup {"undeclared"}] }
    /\ InitLinker
    /\ IdleMachine
    /\ InitRt

\* The test firmware's linker declaration, with a trap frame the build
\* script fills by pushes, for either register width.
InitFrame ==
    /\ memory_regions = TestMemoryRegions
    /\ decl_sections = SectionsOn(TestSectionTargets)
    /\ InitLinker
    /\ IdleMachine
    /\ target_config \in { [TestTargetConfig EXCEPT !.rv_xlen = x] : x \in {"Rv32", "Rv64"} }
    /\ trap_frame \in {TrapFrame_get_default, MinimalFrame}
    /\ pushes = 0
    /\ rt_config = NoRtConfig

\* The test firmware's linker declaration, any one Section of which may name
\* an undeclared memory, with one of the trap frame inputs.
InitRuntime ==
    /\ memory_regions = TestMemoryRegions
    /\ decl_sections \in
         { SectionsOn(TestSectionTargets) }
         \cup { SectionsOn([TestSectionTargets EXCEPT ![k] = "undeclared"]) :
                  k \in 1..Len(TestSectionTargets) }
    /\ InitLinker
    /\ IdleMachine
    /\ target_config \in { [TestTargetConfig EXCEPT !.rv_xlen = x] : x \in {"Rv32", "Rv64"} }
    /\ trap_frame \in FrameInputs
    /\ pushes = 0
    /\ rt_config = NoRtConfig

(***************************************************************************)
(* The build script: LinkerConfig::new, RtConfig::new, then the writers.   *)
(***************************************************************************)
Panic(e) ==
    /\ pc' = "panicked"
    /\ err' = e

\* LinkerConfig::new(memory_regions, sections, stack_location, target_config).
LinkerConfigNew ==
    /\ pc = "declared"
    /\ LET made == LinkerConfig_new(memory_regions, decl_sections, stack_location)
       IN  IF made.err # "ok"
           THEN /\ Panic(made.err)
                /\ UNCHANGED <<memories, sections>>
           ELSE /\ pc' = "configured"
                /\ memories' = made.memories
                /\ sections' = made.sections
                /\ err' = "ok"
    /\ UNCHANGED <<memory_regions, decl_sections, stack_location, sentences,
                   files, emissions, target_config, rt_vars, machine_vars>>

\* FileWriter::write of the file `name` (file_writer.rs is not part of the
\* sources at hand: the file reaches the disk when write is called).
FileWriter_write(name) == files' = files \cup {name}

\* write_linker_ld_file: the script is generated, which registers every
\* Section with its Memory, and program.ld is written; a Section whose target
\* memory is not found panics before the write.
WriteLinkerLdFile ==
    /\ pc \in {"configured", "linker_written"}
    /\ emissions < MaxEmissions
    /\ LET gen == linker_script(memories, sections, stack_location, target_config)
       IN  IF gen.err # "ok"
           THEN /\ Panic(gen.err)
                /\ UNCHANGED <<memories, sentences, files>>
           ELSE /\ pc' = "ld_written"
                /\ memories' = gen.memories
                /\ sentences' = gen.sentences
                /\ FileWriter_write("linker/program.ld")
                /\ err' = "ok"
    /\ UNCHANGED <<memory_regions, decl_sections, stack_location, sections,
                   emissions, target_config, rt_vars, machine_vars>>

\* write_consts_rs_file: consts.rs is generated and written.
WriteConstsRsFile ==
    /\ pc = "ld_written"
    /\ pc' = "consts_written"
    /\ FileWriter_write("linker/consts.rs")
    /\ UNCHANGED <<memory_regions, decl_sections, stack_location, memories,
                   sections, sentences, emissions, err, target_config, rt_vars, machine_vars>>

\* The end of write_linker_files: root_fw.write() of the root module.
WriteLinkerRoot ==
    /\ pc = "consts_written"
    /\ pc' = "linker_written"
    /\ FileWriter_write("linker/mod.rs")
    /\ emissions' = emissions + 1
    /\ UNCHANGED <<memory_regions, decl_sections, stack_location, memories,
                   sections, sentences, err, target_config, rt_vars, machine_vars>>

\* The build script pushes one more entry on one list of its TrapFrame.
Push(field, candidates) ==
    /\ ~rt_config.constructed
    /\ pushes < MaxPushes
    /\ \E x \in candidates :
         /\ ~contains(trap_frame[field], x)
         /\ trap_frame' = [trap_frame EXCEPT ![field] = Append(@, x)]
    /\ pushes' = pushes + 1
    /\ UNCHANGED <<pc, linker_vars, rt_config, machine_vars>>

PushGeneralRegister == Push("general_regs", PushedGeneralRegisters)

PushFloatingPointRegister ==
    Push("floating_point_registers", PushedFloatingPointRegisters)

PushCsr == Push("csrs", PushedCsrs)

PushRtStateValue == Push("rt_state_values", PushedRtStateValues)

\* RtConfig::new(.., trap_frame, .., floating_point_support, ..).
RtConfigNew ==
    /\ ~rt_config.constructed
    /\ \E floating_point_support \in BOOLEAN :
         rt_config' = RtConfig_new(trap_frame, floating_point_support)
    /\ UNCHANGED <<pc, linker_vars, trap_frame, pushes, machine_vars>>

\* write_boot_s_file, the first step of write_rt_files: the assembly is
\* generated, which panics on a trap frame it cannot lay out, and boot.S is
\* written.
WriteBootSFile ==
    /\ pc = "linker_written"
    /\ rt_config.constructed
    /\ LET e == boot_s_generation(rt_config, target_config)
       IN  IF e # "ok"
           THEN /\ Panic(e)
                /\ UNCHANGED files
           ELSE /\ pc' = "boot_written"
                /\ FileWriter_write("rt/boot.S")
                /\ err' = "ok"
    /\ UNCHANGED <<memory_regions, decl_sections, stack_location, memories,
                   sections, sentences, emissions, target_config, rt_vars, machine_vars>>

\* One of the later steps of write_rt_files: the file `name` is written.
WriteRtFile(from, to, name) ==
    /\ pc = from
    /\ pc' = to
    /\ FileWriter_write(name)
    /\ UNCHANGED <<memory_regions, decl_sections, stack_location, memories,
                   sections, sentences, emissions, err, target_config, rt_vars, machine_vars>>

WriteAsmRsFile == WriteRtFile("boot_written", "asm_written", "rt/asm.rs")

WriteTpblockRsFile == WriteRtFile("asm_written", "tpblock_written", "rt/tpblock.rs")

WriteTrapframeRsFile ==
    WriteRtFile("tpblock_written", "trapframe_written", "rt/trapframe.rs")

\* The end of write_rt_files: root_fw.write() of the root module.
WriteRtRoot == WriteRtFile("trapframe_written", "rt_written", "rt/mod.rs")

\* A build script that calls write_linker_files on its LinkerConfig.
Next ==
    \/ LinkerConfigNew
    \/ WriteLinkerLdFile
    \/ WriteConstsRsFile
    \/ WriteLinkerRoot

Spec == Init /\ [][Next]_vars

SpecSections == InitSections /\ [][Next]_vars

(***************************************************************************)
(* Declarations with SubSections, a Custom section and a Stack section.    *)
(***************************************************************************)
\* Most SubSections on one Section.
MaxSubSections == 2

\* The SubSections a build script adds: `.payload.data` kept and limited to
\* 4 KiB, `.tables` and `vectors` neither kept nor limited.
TestSubSections ==
    << keep(SubSection_new(<<"", "payload", "data">>, 8, Some(4 * KiB))),
       SubSection_new(<<"", "tables">>, 64, None),
       SubSection_new(<<"vectors">>, 16, None) >>

\* The lists of at most n different test SubSections, in any order.
SubSectionLists(n) ==
    { [i \in 1..Len(picks) |-> TestSubSections[picks[i]]] :
        picks \in { p \in UNION { [1..l -> 1..Len(TestSubSections)] : l \in 0..n } :
                      \A i, j \in 1..Len(p) : i # j => p[i] # p[j] } }

RECURSIVE with_subsections(_, _, _)
\* Section::add_subsection called for the first n entries of `subs`.
with_subsections(section, subs, n) ==
    IF n = 0 THEN section
    ELSE add_subsection(with_subsections(section, subs, n - 1), subs[n])

\* The Sections of the test firmware's build script, its Custom section of
\* `size` bytes, with or without a Stack section on the second sub-region.
TestSections(size, stack) ==
    SectionsOn(TestSectionTargets)
    \o << Section_new_custom("custom_section", size, SectionAlignment, "region_2_sub_1") >>
    \o (IF stack THEN << Section_new("stack", SectionAlignment, "region_2_sub_2") >>
        ELSE <<>>)

StackLocations == {"SeparateSection", "InBssDefault", "InBssNatural"}

\* The test firmware's regions and Sections, one Section carrying a list of
\* SubSections, for a heap and a Custom section of 0 or 4 KiB and every
\* StackLocation.
InitSubSections ==
    /\ memory_regions = TestMemoryRegions
    /\ \E size \in {0, 4 * KiB}, stack \in BOOLEAN :
         \E k \in 1..Len(TestSections(size, stack)), subs \in SubSectionLists(MaxSubSections) :
           decl_sections = [TestSections(size, stack) EXCEPT
                               ![k] = with_subsections(@, subs, Len(subs))]
    /\ pc = "declared"
    /\ stack_location \in StackLocations
    /\ memories = <<>>
    /\ sections = <<>>
    /\ sentences = <<>>
    /\ files = {}
    /\ emissions = 0
    /\ err = "ok"
    /\ IdleMachine
    /\ target_config \in { [TestTargetConfig EXCEPT !.heap_size = h] : h \in {0, 4 * KiB} }
    /\ trap_frame = TrapFrame_get_default
    /\ pushes = 0
    /\ rt_config = NoRtConfig

SpecSubSections == InitSubSections /\ [][Next]_vars

\* A build script that fills a TrapFrame and hands it to RtConfig::new.
NextFrame ==
    \/ PushGeneralRegister
    \/ PushFloatingPointRegister
    \/ PushCsr
    \/ PushRtStateValue
    \/ RtConfigNew

SpecFrame == InitFrame /\ [][NextFrame]_vars

\* The test firmware's build script: the RuntimeConfig is made of
\* LinkerConfig::new and RtConfig::new, then write_rv_runtime_files runs
\* write_linker_files and write_rt_files on it.
NextRuntime ==
    \/ LinkerConfigNew
    \/ (pc = "configured" /\ RtConfigNew)
    \/ (rt_config.constructed /\ WriteLinkerLdFile)
    \/ WriteConstsRsFile
    \/ WriteLinkerRoot
    \/ WriteBootSFile
    \/ WriteAsmRsFile
    \/ WriteTpblockRsFile
    \/ WriteTrapframeRsFile
    \/ WriteRtRoot

SpecRuntime == InitRuntime /\ [][NextRuntime]_vars

(***************************************************************************)
(* write_boot_s_file, step by step, on the RtConfigs of a range of         *)
(* targets.                                                                *)
(***************************************************************************)
\* The build script's variables, at rest in the test firmware's declaration.
IdleBuild ==
    /\ memory_regions = TestMemoryRegions
    /\ decl_sections = SectionsOn(TestSectionTargets)
    /\ InitLinker
    /\ InitRt

\* The default trap frame with k more CSRs (Csr::Other), which make it
\* larger, pushed after the default CSRs or listed in front of them.
PaddedFrame(k, front) ==
    [TrapFrame_get_default EXCEPT
        !.csrs = IF front THEN [i \in 1..k |-> "Other" \o ToString(i)] \o @
                 ELSE @ \o [i \in 1..k |-> "Other" \o ToString(i)]]

\* Numbers of added CSRs around the largest frames the 12-bit immediates
\* allow: 254 slots of 8 bytes, the default frame taking 37 of them and the
\* floating-point extension 33 more; with 225 CSRs in front of it Status
\* is the slot at offset 2048.
Paddings == {0, 184, 185, 217, 218, 225}

\* max_hart_count: single-hart, the test firmware's 4, and the largest
\* counts around the 12-bit immediate of the bounds check.
HartCounts == {1, 4, 2047, 2048}

\* The TargetConfigs: M-mode, 64-bit, harts sharing the reset vector or not.
AsmTargetConfigs ==
    { [rv_mode |-> "MMode", rv_xlen |-> "Rv64", max_hart_count |-> n,
       all_harts_start_at_reset_vector |-> shared,
       per_hart_stack_size |-> 8192, heap_size |-> 4096,
       custom_reset_config |-> TRUE] : n \in HartCounts, shared \in BOOLEAN }

InitAsm ==
    /\ IdleBuild
    /\ harts = << >>
    /\ ram = << >>
    /\ \E k \in Paddings, front \in BOOLEAN, tc \in AsmTargetConfigs,
          skip_bss_clearing \in BOOLEAN, stack_overflow_detection \in BOOLEAN,
          floating_point_support \in BOOLEAN, sfence \in BOOLEAN :
         asm = AsmBuilder_new(
                 RtConfig_new_with(PaddedFrame(k, front), TpBlock_get_default, tc,
                     skip_bss_clearing, stack_overflow_detection, TRUE,
                     floating_point_support, sfence))

\* A run of AsmBuilder calls of write_boot_s_file.
AsmStep(from, to, code) ==
    /\ asm.at = from
    /\ asm' = add_sentences(asm, code, to)
    /\ UNCHANGED <<pc, linker_vars, rt_vars, harts, ram>>

\* The start code: build_multi_hart_start, or build_boot_hart_start and
\* build_secondary_hart_start.
BuildStart == AsmStep("new", "start", build_start(asm.rt_config))

\* protect_stack_section, park_hart, restore_trap_frame, handle_trap and
\* goto_rust_entrypoint.
BuildRuntime ==
    AsmStep("start", "runtime",
        (IF asm.rt_config.stack_overflow_detection
         THEN protect_stack_section(asm.rt_config) ELSE <<>>)
        \o << InsOn("wfi", <<>>), InsOn("j", <<"_park_hart">>) >>
        \o restore_trap_frame_asm(asm.rt_config)
        \o handle_trap(asm.rt_config)
        \o goto_rust_entrypoint(asm.rt_config))

\* write_asm_helpers and create_trap_frame.
BuildHelpers ==
    AsmStep("runtime", "helpers",
        write_asm_helpers(asm.rt_config) \o create_trap_frame_asm(asm.rt_config))

\* asm.generate(&fw): every sentence is printed to the FileWriter.
Generate == AsmStep("helpers", "generated", <<>>)

NextAsm ==
    \/ BuildStart
    \/ BuildRuntime
    \/ BuildHelpers
    \/ Generate

SpecAsm == InitAsm /\ [][NextAsm]_vars

(***************************************************************************)
(* The harts that run the generated start code of rt_config: every step    *)
(* is the run of instructions of one hart between two accesses to memory   *)
(* that another hart reads or writes (boot_idx, bss_init_done, the BSS).   *)
(* The start code has no fence: the stores of a hart to the BSS and to     *)
(* bss_init_done reach memory in any order, each some time after the store *)
(* instruction (ram.pending holds them meanwhile).                         *)
(***************************************************************************)
\* The address of _stack_top: the stack section of the linker holds
\* max_hart_count stacks of per_hart_stack_size bytes and ends there.
stack_top_symbol(tc) == TestBase + stack_region_size(tc)

\* A hart before its first instruction, entering at `entry`.
HartAtReset(entry) ==
    [entry |-> entry, at |-> "reset", boot_id |-> 0, sp |-> 0, tp |-> 0,
     start_reg |-> 0, stack_bottom |-> 0]

\* The memory the start code works on: boot_idx and bss_init_done are
\* .data words holding 0, tp_block holds max_hart_count zeroed TpBlocks, the
\* BSS holds anything (1) before it is cleared.
RamAtReset(rt, bss_words) ==
    [boot_idx |-> 0, bss_init_done |-> 0,
     bss |-> [w \in 1..bss_words |-> 1],
     tp_block |-> [slot \in 0..(rt.target_config.max_hart_count - 1) |->
                     [boot_id |-> 0, hart_id |-> 0, rust_entrypoint |-> "none"]],
     sentries |-> {}, pending |-> {}, writers |-> {}]

\* An amoadd that does not add.
amoadd_no_add(word, inc) == [rd |-> word, mem |-> word]

\* amoadd rd, inc, (addr): rd gets the word and the word is raised by inc, in
\* one step.
amoadd(word, inc) == [rd |-> word, mem |-> word + inc]

\* A poll that never waits.
bss_init_done_seen_always(val_reg) == TRUE

\* wait_for_bss_init_done: beqz val_reg loops back while the word is 0.
bss_init_done_seen(val_reg) == val_reg # 0

\* A get_stack_bottom that forgets the + 1.
get_stack_bottom_at_boot_id(tc, boot_id) ==
    stack_top_symbol(tc) - tc.per_hart_stack_size * boot_id

\* get_stack_bottom: _stack_top - hart_stack_size * (boot_id + 1), the boot
\* id read from the TpBlock.
get_stack_bottom(tc, boot_id) ==
    stack_top_symbol(tc) - tc.per_hart_stack_size * (boot_id + 1)

\* The hart runs the boot hart's code after common_hart_init: the hart with
\* boot id 0 where handle_nonboot_harts is generated, the hart that entered
\* at _start elsewhere.
OnBootPath(h) ==
    IF multihart_reset_handling_required(rt_config.target_config)
    THEN harts[h].boot_id = 0
    ELSE harts[h].entry = "_start"

\* One step of hart h: it moves to `to` with the fields `upd` changed.
HartStep(h, to, upd) ==
    harts' = [harts EXCEPT ![h] = upd @@ [at |-> to] @@ @]

\* determine_boot_id: the amoadd on boot_idx and hart_count_error_handling,
\* whose bltu boot_id, max_hart_count skips the jump to _park_hart; boot id 0
\* on a single-hart target.
DetermineBootId(h) ==
    /\ harts[h].at = "reset"
    /\ IF is_multi_hart(rt_config.target_config)
       THEN LET r == amoadd(ram.boot_idx, 1)
            IN  /\ HartStep(h, IF r.rd < rt_config.target_config.max_hart_count
                                THEN "init" ELSE "_park_hart",
                       [boot_id |-> r.rd])
                /\ ram' = [ram EXCEPT !.boot_idx = r.mem]
       ELSE /\ HartStep(h, "init", [boot_id |-> 0])
            /\ UNCHANGED ram
    /\ UNCHANGED <<pc, linker_vars, rt_vars, asm>>

\* The rest of common_hart_init: init_stack_pointer_using_boot_id, then
\* write_scratch, which points tp at the TpBlock of the boot id and stores
\* the ids there, then handle_nonboot_harts where harts share the reset
\* vector.
CommonHartInit(h) ==
    /\ harts[h].at = "init"
    /\ LET tc == rt_config.target_config
           b == harts[h].boot_id
           boot_path ==
               IF multihart_reset_handling_required(tc) THEN b = 0
               ELSE harts[h].entry = "_start"
       IN  /\ HartStep(h, IF boot_path THEN "zero_bss" ELSE "_secondary_start",
                  [sp |-> stack_top_symbol(tc) - tc.per_hart_stack_size * b,
                   tp |-> Len(rt_config.tp_block) * xlen_bytes(tc) * b,
                   start_reg |-> 1])
           /\ ram' = [ram EXCEPT !.tp_block[b] =
                        [@ EXCEPT !.boot_id = b, !.hart_id = h]]
    /\ UNCHANGED <<pc, linker_vars, rt_vars, asm>>

\* zero_bss: one round of the zeroing loop, or its exit; then the store of 1
\* to bss_init_done on a multi-hart target.
ZeroBss(h) ==
    /\ harts[h].at = "zero_bss"
    /\ IF rt_config.skip_bss_clearing
       THEN /\ HartStep(h, "jump_to_rust_entrypoint", << >>)
            /\ UNCHANGED ram
       ELSE IF harts[h].start_reg <= Len(ram.bss)
       THEN /\ ram' = [ram EXCEPT !.pending =
                         @ \cup {[hart |-> h, word |-> harts[h].start_reg]}]
            /\ HartStep(h, "zero_bss", [start_reg |-> harts[h].start_reg + 1])
       ELSE IF is_multi_hart(rt_config.target_config)
       THEN /\ ram' = [ram EXCEPT !.pending = @ \cup {[hart |-> h, word |-> 0]}]
            /\ HartStep(h, "jump_to_rust_entrypoint", << >>)
       ELSE /\ HartStep(h, "jump_to_rust_entrypoint", << >>)
            /\ UNCHANGED ram
    /\ UNCHANGED <<pc, linker_vars, rt_vars, asm>>

\* A store of hart h to the BSS (word 1 and up), or its store to
\* bss_init_done (word 0), reaches memory.
StoreVisible(h) ==
    /\ \E st \in ram.pending :
         /\ st.hart = h
         /\ ram' = IF st.word = 0
                   THEN [ram EXCEPT !.bss_init_done = 1, !.writers = @ \cup {h},
                                    !.pending = @ \ {st}]
                   ELSE [ram EXCEPT !.bss[st.word] = 0, !.pending = @ \ {st}]
    /\ UNCHANGED <<pc, linker_vars, rt_vars, asm, harts>>

\* A wait_for_bss_init_done that is generated whether or not BSS clearing
\* is skipped.
waits_for_bss_init_done_always(rt) == TRUE

\* wait_for_bss_init_done returns without generating code when BSS clearing
\* is skipped.
waits_for_bss_init_done(rt) == ~rt.skip_bss_clearing

\* wait_for_bss_init_done, where it is generated: one load of bss_init_done
\* and the beqz on it, which branches back to the loop's label while the
\* word is 0.
WaitForBssInitDone(h) ==
    /\ harts[h].at \in {"_secondary_start", "wait_for_bss_init_done"}
    /\ IF ~waits_for_bss_init_done(rt_config)
          \/ bss_init_done_seen(ram.bss_init_done)
       THEN HartStep(h, "jump_to_rust_entrypoint", << >>)
       ELSE HartStep(h, "wait_for_bss_init_done", << >>)
    /\ UNCHANGED <<pc, linker_vars, rt_vars, asm, ram>>

\* jump_to_rust_entrypoint: the entrypoint is written to the TpBlock, then
\* protect_stack stores the sentry value at sp - hart_stack_size, then
\* goto_rust_entrypoint jumps to the entrypoint the TpBlock names.
JumpToRustEntrypoint(h) ==
    /\ harts[h].at = "jump_to_rust_entrypoint"
    /\ LET stack_bottom == harts[h].sp - rt_config.target_config.per_hart_stack_size
       IN  /\ ram' = [ram EXCEPT
                 !.tp_block[harts[h].boot_id].rust_entrypoint =
                     IF OnBootPath(h) THEN "BootHart" ELSE "NonBootHart",
                 !.sentries = IF rt_config.stack_overflow_detection
                              THEN @ \cup {stack_bottom} ELSE @]
           /\ HartStep(h, ram'.tp_block[harts[h].boot_id].rust_entrypoint, << >>)
    /\ UNCHANGED <<pc, linker_vars, rt_vars, asm>>

\* The entrypoint returns to restore_trap_frame, whose check_stack reads the
\* word get_stack_bottom finds from the boot id in the TpBlock; the hart ends
\* in _park_hart, through the stack overflow handler if the sentry value is
\* not there.
CheckStack(h) ==
    /\ harts[h].at \in {"BootHart", "NonBootHart"}
    /\ LET bottom == get_stack_bottom(rt_config.target_config,
                         ram.tp_block[harts[h].boot_id].boot_id)
       IN  HartStep(h,
               IF rt_config.stack_overflow_detection /\ bottom \notin ram.sentries
               THEN "StackOverflow" ELSE "returned",
               [stack_bottom |-> bottom])
    /\ UNCHANGED <<pc, linker_vars, rt_vars, asm, ram>>

\* The most harts that leave reset, and the largest max_hart_count.
MaxHarts == 3

\* The largest BSS, in words.
MaxBssWords == 1

\* The TargetConfigs of the start code: M-mode, 64-bit, stacks of 8 KiB as in
\* the test firmware, up to MaxHarts harts, sharing the reset vector or not.
BootTargetConfigs ==
    { [rv_mode |-> "MMode", rv_xlen |-> "Rv64", max_hart_count |-> n,
       all_harts_start_at_reset_vector |-> shared,
       per_hart_stack_size |-> 8192, heap_size |-> 4096,
       custom_reset_config |-> FALSE] : n \in 1..MaxHarts, shared \in BOOLEAN }

\* The harts that leave reset on a target: one on a single-hart target; on
\* a shared reset vector any number of harts, all at _start, possibly more
\* than max_hart_count; otherwise hart 1 at _start and the harts it starts at
\* _secondary_start.
HartsOf(tc) ==
    IF ~is_multi_hart(tc) THEN { [h \in 1..1 |-> HartAtReset("_start")] }
    ELSE { [h \in 1..n |->
              HartAtReset(IF h = 1 \/ tc.all_harts_start_at_reset_vector
                          THEN "_start" ELSE "_secondary_start")] :
           n \in 1..MaxHarts }

InitBoot ==
    /\ memory_regions = TestMemoryRegions
    /\ decl_sections = SectionsOn(TestSectionTargets)
    /\ InitLinker
    /\ trap_frame = TrapFrame_get_default
    /\ pushes = 0
    /\ asm = NoAsmBuilder
    /\ \E tc \in BootTargetConfigs, skip_bss_clearing \in BOOLEAN,
          stack_overflow_detection \in BOOLEAN, bss_words \in 0..MaxBssWords :
         /\ target_config = tc
         /\ rt_config = RtConfig_new_with(TrapFrame_get_default,
                            TpBlock_get_default, tc, skip_bss_clearing,
                            stack_overflow_detection, TRUE, FALSE, FALSE)
         /\ ram = RamAtReset(rt_config, bss_words)
         /\ harts \in HartsOf(tc)

NextBoot ==
    \E h \in DOMAIN harts :
        \/ DetermineBootId(h)
        \/ CommonHartInit(h)
        \/ ZeroBss(h)
        \/ StoreVisible(h)
        \/ WaitForBssInitDone(h)
        \/ JumpToRustEntrypoint(h)
        \/ CheckStack(h)

SpecBoot == InitBoot /\ [][NextBoot]_vars

(***************************************************************************)
(* One hart running the generated trap and context-switch code.  The hart  *)
(* m is a record of its general registers (regs), floating-point registers *)
(* (fregs) and fcsr, the CSRs status, epc and scratch, its privilege mode, *)
(* its pc, and the memory (mem), a function from the addresses written so  *)
(* far to the word stored there.  Of status the FS and the xPP field are   *)
(* kept.  Each operator is the generated routine, run from its label to    *)
(* its last instruction without a trap in between.                         *)
(***************************************************************************)
STATUS_FS_MASK_DIRTY == 24576

STATUS_FS_CLEAN == 16384

\* The addresses of the labels _park_hart, _restore_trap_frame, of the trap
\* entrypoint and of _global_pointer.
park_hart_label == 64

restore_trap_frame_label == 128

trap_rust_entrypoint == 256

global_pointer_symbol == 512

\* enum RtFlagBit: the bit of a flag.
RtFlagBit(flag) ==
    CASE flag = "RestoreTrapFrameInTpBlock" -> 0
      [] flag = "FsStateWasDirty" -> 1
      [] flag = "TranslationRegChanged" -> 2

\* RtFlagBit::as_mask
as_mask(flag) == 2 ^ RtFlagBit(flag)

\* The bitwise | of two naturals.
BitOr(a, b) == a + b - BitAnd(a, b)

\* A load: memory never written reads as 0.
Load(mem, addr) == IF addr \in DOMAIN mem THEN mem[addr] ELSE 0

\* A store.
Store(mem, addr, val) == (addr :> val) @@ mem

\* The address of a member of the TpBlock tp points to.
tp_member(rt, tp, member) == tp + tp_block_offset(rt, member)

\* A trap as the hart takes it: epc and xPP record where and in which mode
\* it was, and the hart is in the runtime's mode at the trap vector.
take_trap(rt, m) ==
    LET pp == as_pp(rt.target_config.rv_mode)
    IN  [m EXCEPT !.epc = m.pc,
                  !.status = m.status - BitAnd(m.status, pp)
                                 + (IF m.mode = "M" THEN pp ELSE 0),
                  !.mode = "M"]

\* mode_ret as the hart executes it: the pc is epc, the mode is xPP, and xPP
\* becomes the least privileged mode the hart has.
mode_ret(rt, m) ==
    LET pp == as_pp(rt.target_config.rv_mode)
    IN  [m EXCEPT !.pc = m.epc,
                  !.mode = IF BitAnd(m.status, pp) = pp THEN "M" ELSE "U",
                  !.status = IF m.has_lower_mode
                             THEN m.status - BitAnd(m.status, pp) ELSE m.status]

\* handle_trap: a scratch of 0 tells a trap taken in the runtime's own mode
\* (nested), which continues on the stack it was on and sets the
\* RestoreTrapFrameInTpBlock flag; otherwise scratch holds the TpBlock, the
\* flags are cleared and the stack is CurrentModeStack.
handle_trap_run(rt, m) ==
    LET swapped == m.regs.Tp
        nested == m.scratch = 0
        tp == IF nested THEN swapped ELSE m.scratch
        sp == m.regs.Sp
        mem1 == IF nested
                THEN Store(Store(m.mem, tp_member(rt, tp, "CurrentModeStack"), sp),
                           tp_member(rt, tp, "RtFlags"),
                           as_mask("RestoreTrapFrameInTpBlock"))
                ELSE Store(m.mem, tp_member(rt, tp, "RtFlags"), 0)
        mem2 == Store(mem1, tp_member(rt, tp, "InterruptedModeStack"), sp)
        mem3 == Store(mem2, tp_member(rt, tp, "InterruptedModeTp"), swapped)
        mem4 == Store(mem3, tp_member(rt, tp, "RustEntrypoint"), trap_rust_entrypoint)
    IN  [m EXCEPT !.regs = [@ EXCEPT !.Tp = tp,
                               !.Sp = Load(mem4, tp_member(rt, tp, "CurrentModeStack"))],
                  !.scratch = swapped,
                  !.mem = mem4]

\* create_trap_frame: the frame is carved below sp and filled; it returns
\* with sp at the frame.
create_trap_frame_run(rt, m) ==
    LET tc == rt.target_config
        tf == rt.trap_frame
        tp == m.regs.Tp
        lowered == m.regs.Sp - trap_frame_size(rt, tc)
        sp == lowered - (lowered % 16)
        at(idx) == sp + frame_offset(rt, idx)
        idx_of(addr) == (addr - sp) \div xlen_bytes(tc)
        grs == tf.general_regs
        frs == tf.floating_point_registers
        csrs == tf.csrs
        stashed_grs ==
            [a \in {at(i - 1 + gr_start_idx(tf)) :
                      i \in {j \in 1..Len(grs) : grs[j] \notin {"Sp", "Tp", "Ra"}}} |->
                m.regs[grs[idx_of(a) - gr_start_idx(tf) + 1]]]
        dirty == /\ rt.floating_point_support
                 /\ BitAnd(m.status, STATUS_FS_MASK_DIRTY) = STATUS_FS_MASK_DIRTY
        stashed_frs ==
            IF dirty
            THEN [a \in {at(fr_idx(tf, i - 1)) : i \in 1..Len(frs)} |->
                    m.fregs[frs[idx_of(a) - fr_start_idx(tf) + 1]]]
            ELSE << >>
        status == IF dirty
                  THEN BitOr(m.status - BitAnd(m.status, STATUS_FS_MASK_DIRTY),
                             STATUS_FS_CLEAN)
                  ELSE m.status
        rt_flags == IF dirty
                    THEN BitOr(Load(m.mem, tp_member(rt, tp, "RtFlags")),
                               as_mask("FsStateWasDirty"))
                    ELSE Load(m.mem, tp_member(rt, tp, "RtFlags"))
        from_tp ==
            (at(gr_idx(tf, "Tp")) :> Load(m.mem, tp_member(rt, tp, "InterruptedModeTp")))
            @@ (at(gr_idx(tf, "Ra")) :> Load(m.mem, tp_member(rt, tp, "ReturnAddr")))
            @@ (at(gr_idx(tf, "Sp")) :> Load(m.mem, tp_member(rt, tp, "InterruptedModeStack")))
        csr(name) == CASE name = "Status" -> status
                       [] name = "Epc" -> m.epc
                       [] name = "Fcsr" -> m.fcsr
                       [] OTHER -> 0
        stashed_csrs ==
            [a \in {at(i - 1 + csr_start_idx(tf)) : i \in 1..Len(csrs)} |->
                csr(csrs[idx_of(a) - csr_start_idx(tf) + 1])]
        rt_state ==
            (at(rt_state_idx(tf, "InterruptedTrapFrameAddr")) :>
                 Load(m.mem, tp_member(rt, tp, "TrapCtx")))
            @@ (at(rt_state_idx(tf, "RtFlags")) :> rt_flags)
    IN  [m EXCEPT !.regs = [@ EXCEPT !.Sp = sp],
                  !.status = status,
                  !.scratch = 0,
                  !.mem = (tp_member(rt, tp, "RtFlags") :> 0)
                          @@ rt_state @@ stashed_csrs @@ from_tp
                          @@ stashed_frs @@ stashed_grs @@ m.mem]

\* goto_rust_entrypoint: ra is kept in the TpBlock, the frame is created, gp
\* is set, the frame becomes the TpBlock's trap frame and the entrypoint the
\* TpBlock names is entered with ra at _restore_trap_frame.
goto_rust_entrypoint_run(rt, m) ==
    LET tp == m.regs.Tp
        saved == [m EXCEPT !.mem = Store(@, tp_member(rt, tp, "ReturnAddr"), m.regs.Ra)]
        framed == create_trap_frame_run(rt, saved)
    IN  [framed EXCEPT
            !.regs = [@ EXCEPT !.Gp = global_pointer_symbol,
                               !.Ra = restore_trap_frame_label],
            !.mem = Store(@, tp_member(rt, tp, "TrapCtx"), framed.regs.Sp),
            !.pc = Load(framed.mem, tp_member(rt, tp, "RustEntrypoint"))]

\* restore_trap_frame, the frame's flags in hand: beqz on the
\* RestoreTrapFrameInTpBlock bit branches to the label in front of the CSR
\* loop, past the reload of the floating-point registers, which has its own
\* beqz on the FsStateWasDirty bit.
reloads_fp(rt, rt_flags) ==
    /\ rt.floating_point_support
    /\ BitAnd(rt_flags, as_mask("RestoreTrapFrameInTpBlock")) # 0
    /\ BitAnd(rt_flags, as_mask("FsStateWasDirty")) # 0

\* A restore_trap_frame that never writes the frame's pointer back.
restores_trap_ctx_never(rt_flags) == FALSE

\* restore_trap_frame writes the frame's InterruptedTrapFrameAddr to the
\* TpBlock if the frame's RestoreTrapFrameInTpBlock flag is set.
restores_trap_ctx(rt_flags) ==
    BitAnd(rt_flags, as_mask("RestoreTrapFrameInTpBlock")) # 0

\* restore_trap_frame: sp points to the frame; the hart leaves with the
\* mode_ret.
restore_trap_frame_run(rt, m) ==
    LET tc == rt.target_config
        tf == rt.trap_frame
        tp == m.regs.Tp
        sp == m.regs.Sp
        at(idx) == sp + frame_offset(rt, idx)
        pp == as_pp(tc.rv_mode)
        to_lower == BitAnd(Load(m.mem, at(csr_idx(tf, "Status"))), pp) # pp
        mem1 == IF to_lower
                THEN Store(m.mem, tp_member(rt, tp, "CurrentModeStack"),
                         sp + aligned_trap_frame_size(trap_frame_size(rt, tc)))
                ELSE m.mem
        rt_flags == Load(mem1, at(rt_state_idx(tf, "RtFlags")))
        mem2 == IF restores_trap_ctx(rt_flags)
                THEN Store(mem1, tp_member(rt, tp, "TrapCtx"),
                         Load(mem1, at(rt_state_idx(tf, "InterruptedTrapFrameAddr"))))
                ELSE mem1
        mem3 == IF reloads_fp(rt, rt_flags)
                THEN Store(mem2, at(rt_state_idx(tf, "RtFlags")),
                         rt_flags - as_mask("FsStateWasDirty"))
                ELSE mem2
        frs == tf.floating_point_registers
        grs == tf.general_regs
        listed(list, reg) == CHOOSE i \in 1..Len(list) : list[i] = reg
        restored(name, now) ==
            IF contains(tf.csrs, name) /\ restore_from_trap_frame(name)
            THEN Load(mem3, at(csr_idx(tf, name))) ELSE now
    IN  mode_ret(rt,
          [m EXCEPT
            !.scratch = IF to_lower THEN tp ELSE @,
            !.fregs = IF reloads_fp(rt, rt_flags)
                      THEN [f \in DOMAIN m.fregs |->
                              IF f \in Range(frs)
                              THEN Load(mem3, at(fr_idx(tf, listed(frs, f) - 1)))
                              ELSE m.fregs[f]]
                      ELSE @,
            !.status = restored("Status", @),
            !.epc = restored("Epc", @),
            !.fcsr = restored("Fcsr", @),
            !.regs = [r \in DOMAIN m.regs |->
                        IF r \in Range(grs)
                        THEN Load(mem3, at(listed(grs, r) - 1 + gr_start_idx(tf)))
                        ELSE m.regs[r]],
            !.mem = mem3])

\* A switch_to that does not keep the frame of the caller.
switch_priv_ctx_unsaved(rt, mem, tp, a0, frame) ==
    Store(Store(mem, tp_member(rt, tp, "CurrContext"), a0),
        tp_member(rt, tp, "CurrentModeStack"), 0)

\* switch_to past its create_trap_frame: the frame goes to the priv_ctx of
\* the current context (priv_ctx is member 0 of ThreadContext), the context
\* in a0 becomes the current one and CurrentModeStack is zeroed.
switch_priv_ctx(rt, mem, tp, a0, frame) ==
    LET priv_ctx_offset == 0
        mem1 == Store(mem,
                    Load(mem, tp_member(rt, tp, "CurrContext")) + priv_ctx_offset,
                    frame)
    IN  Store(Store(mem1, tp_member(rt, tp, "CurrContext"), a0),
            tp_member(rt, tp, "CurrentModeStack"), 0)

\* switch_to, called with the ThreadContext to switch to in a0: the caller
\* is framed as by a trap returning to ra, and sp is the frame the priv_ctx
\* of the context in a0 held, which is zeroed, with the hart's tp in the
\* frame's slot, at the jump to _restore_trap_frame.
switch_to_run(rt, m) ==
    LET tp == m.regs.Tp
        tf == rt.trap_frame
        a0 == m.regs.A0
        entered ==
            [m EXCEPT
               !.epc = m.regs.Ra,
               !.mem = (tp_member(rt, tp, "RtFlags") :>
                            as_mask("RestoreTrapFrameInTpBlock"))
                       @@ (tp_member(rt, tp, "ReturnAddr") :> m.regs.Ra)
                       @@ (tp_member(rt, tp, "InterruptedModeTp") :> tp)
                       @@ (tp_member(rt, tp, "InterruptedModeStack") :> m.regs.Sp)
                       @@ m.mem]
        framed == create_trap_frame_run(rt, entered)
        frame == framed.regs.Sp
        priv_ctx_offset == 0
        saved == switch_priv_ctx(rt, framed.mem, tp, a0, frame)
        sp == Load(saved, a0 + priv_ctx_offset)
        zeroed == Store(saved, a0 + priv_ctx_offset, 0)
    IN  [framed EXCEPT !.regs = [@ EXCEPT !.Sp = sp],
                       !.mem = Store(zeroed, sp + frame_offset(rt, gr_idx(tf, "Tp")), tp)]

(***************************************************************************)
(* The Rust side of that hart: the entrypoint, trap handlers and contexts  *)
(* that compute, trap, edit their frame, return and switch.  harts[1]      *)
(* holds the hart with its memory and the bookkeeping the properties are   *)
(* stated with (ram is not used): cur, the running context; live, for      *)
(* each context its frames from outermost to innermost, each with the      *)
(* registers the framed code had; last, what the latest mode_ret left.     *)
(***************************************************************************)
\* The deepest nesting of frames of one context, the most traps and
\* switches of one run, the most contexts.
MaxEvents == 4

MaxContexts == 2

GeneralRegisters == Range(TrapFrame_get_default.general_regs)

\* The address of the top of the stack of context c, of the TpBlock of the
\* boot hart, of the ThreadContext of context c and of its code; context 1
\* is the boot hart's entrypoint on the boot hart's stack, the other stacks
\* are of the same size, and code and stack past the last context are those
\* of the lower privilege mode.
stack_of(tc, c) == stack_top_symbol(tc) + (c - 1) * tc.per_hart_stack_size

tp_block_symbol(tc) == stack_of(tc, MaxContexts + 1) + KiB

thread_context(tc, c) == tp_block_symbol(tc) + KiB + c * xlen_bytes(tc)

code_of(c) == c * KiB

\* The hart, and the hart after a step.
Machine == harts[1]

Becomes(m) ==
    /\ harts' = << m >>
    /\ UNCHANGED ram

\* The innermost frame of context c.
Innermost(m, c) == m.live[c][Len(m.live[c])]

\* The frame at addr as the bookkeeping keeps it.
Framed(kind, addr, prev, m) ==
    [kind |-> kind, addr |-> addr, prev |-> prev, edited |-> "no",
     first_level |-> m.scratch # 0 /\ kind = "trap",
     cms |-> Load(m.mem, tp_member(rt_config, tp_block_symbol(target_config),
                             "CurrentModeStack")),
     snap |-> [regs |-> m.regs, fregs |-> m.fregs, fcsr |-> m.fcsr,
               pc |-> m.pc, mode |-> m.mode]]

NoFrame == Framed("none", 0, 0,
               [regs |-> << >>, fregs |-> << >>, fcsr |-> 0, pc |-> 0,
                mode |-> "M", scratch |-> 0, mem |-> << >>])

\* What a mode_ret from frame fr left: before is the hart at
\* _restore_trap_frame, after is the hart past the mode_ret.  The register
\* files are kept as their comparison with the frame's slots, with the
\* framed code's registers and with the registers at _restore_trap_frame.
Returned(rt, fr, before, after) ==
    LET tf == rt.trap_frame
        grs == tf.general_regs
        frs == tf.floating_point_registers
        at(idx) == fr.addr + frame_offset(rt, idx)
    IN  [kind |-> fr.kind, edited |-> fr.edited, first_level |-> fr.first_level,
         prev |-> fr.prev,
         framed_pc |-> fr.snap.pc,
         regs_from_slots |->
             \A i \in 1..Len(grs) :
                 after.regs[grs[i]] = Load(before.mem, at(i - 1 + gr_start_idx(tf))),
         regs_as_framed |->
             \A r \in DOMAIN fr.snap.regs :
                 r # "A0" \/ fr.edited # "call" => after.regs[r] = fr.snap.regs[r],
         fregs_from_slots |->
             \A i \in 1..Len(frs) :
                 after.fregs[frs[i]] = Load(before.mem, at(fr_idx(tf, i - 1))),
         fregs_as_framed |->
             \A f \in DOMAIN fr.snap.fregs : after.fregs[f] = fr.snap.fregs[f],
         fregs_untouched |-> after.fregs = before.fregs,
         fcsr_as_framed |-> after.fcsr = fr.snap.fcsr,
         epc_slot |-> Load(before.mem, at(csr_idx(tf, "Epc"))),
         rt_flags |-> Load(before.mem, at(rt_state_idx(tf, "RtFlags"))),
         recorded |-> Load(before.mem, at(rt_state_idx(tf, "InterruptedTrapFrameAddr"))),
         trap_ctx_before |-> Load(before.mem, tp_member(rt, before.regs.Tp, "TrapCtx")),
         trap_ctx |-> Load(after.mem, tp_member(rt, before.regs.Tp, "TrapCtx")),
         framed_cms |-> fr.cms,
         framed_sp |-> IF fr.kind = "none" THEN 0 ELSE fr.snap.regs.Sp,
         cms |-> Load(after.mem, tp_member(rt, before.regs.Tp, "CurrentModeStack")),
         scratch |-> after.scratch,
         pc |-> after.pc, mode |-> after.mode]

\* The hart at _start's jump to goto_rust_entrypoint, after common_hart_init
\* with boot id 0: init_fp has zeroed the floating-point registers, which
\* leaves FS Dirty.
AfterCommonHartInit(rt, has_lower_mode) ==
    LET tc == rt.target_config
        tp == tp_block_symbol(tc)
        sp == stack_top_symbol(tc)
    IN  [regs |-> [r \in GeneralRegisters |->
                     IF r = "Sp" THEN sp ELSE IF r = "Tp" THEN tp ELSE 0],
         fregs |-> [f \in Range(FloatingPointRegisters) |-> 0],
         fcsr |-> 0,
         status |-> as_pp(tc.rv_mode)
                      + (IF rt.floating_point_support
                         THEN STATUS_FS_MASK_DIRTY ELSE 0),
         epc |-> park_hart_label,
         scratch |-> tp,
         mode |-> "M",
         pc |-> 0,
         has_lower_mode |-> has_lower_mode,
         mem |-> (tp_member(rt, tp, "RustEntrypoint") :> code_of(1))
                 @@ (tp_member(rt, tp, "RtFlags") :> 0)
                 @@ (tp_member(rt, tp, "CurrentModeStack") :> sp)
                 @@ (tp_member(rt, tp, "InterruptedModeStack") :> sp)]

\* The frame the Rust code builds for a context that has not run yet, for
\* switch_to to restore: it enters the code of c on the stack of c, in the
\* runtime's mode.
CraftedFrame(rt, c, rt_flags) ==
    LET tc == rt.target_config
        tf == rt.trap_frame
        addr == stack_of(tc, c) - aligned_trap_frame_size(trap_frame_size(rt, tc))
        at(idx) == addr + frame_offset(rt, idx)
    IN  (at(gr_idx(tf, "Sp")) :> stack_of(tc, c))
        @@ (at(csr_idx(tf, "Epc")) :> code_of(c))
        @@ (at(csr_idx(tf, "Status")) :>
               as_pp(tc.rv_mode)
                 + (IF rt.floating_point_support THEN STATUS_FS_CLEAN ELSE 0))
        @@ (at(rt_state_idx(tf, "RtFlags")) :> rt_flags)
        @@ (thread_context(tc, c) :> addr)

\* rv-runtime-test/build.rs: the TargetConfig of the test firmware, with its
\* HartConfig.
TrapTargetConfig ==
    [rv_mode |-> "MMode", rv_xlen |-> "Rv64", max_hart_count |-> 4,
     all_harts_start_at_reset_vector |-> TRUE,
     per_hart_stack_size |-> 8192, heap_size |-> 4096,
     custom_reset_config |-> TRUE]

\* The hart in the boot hart's entrypoint, entered through
\* goto_rust_entrypoint, with contexts 2 .. n ready to be switched to and
\* the TpBlock's current context set to context 1.
InitTrap ==
    /\ memory_regions = TestMemoryRegions
    /\ decl_sections = SectionsOn(TestSectionTargets)
    /\ InitLinker
    /\ target_config = TrapTargetConfig
    /\ trap_frame = TrapFrame_get_default
    /\ pushes = 0
    /\ asm = NoAsmBuilder
    /\ \E floating_point_support \in BOOLEAN, has_lower_mode \in BOOLEAN,
          n \in {MaxContexts},
          rt_flags \in {0} :
         /\ rt_config = RtConfig_new_with(TrapFrame_get_default,
                            TpBlock_get_default, TrapTargetConfig, FALSE, FALSE,
                            TRUE, floating_point_support, FALSE)
         /\ LET tc == TrapTargetConfig
                reset == AfterCommonHartInit(rt_config, has_lower_mode)
                crafted ==
                    [reset EXCEPT !.mem =
                        (tp_member(rt_config, tp_block_symbol(tc), "CurrContext")
                            :> thread_context(tc, 1))
                        @@ [a \in UNION {DOMAIN CraftedFrame(rt_config, c, rt_flags) :
                                           c \in 2..n} |->
                              LET c == CHOOSE c \in 2..n :
                                         a \in DOMAIN CraftedFrame(rt_config, c, rt_flags)
                              IN  CraftedFrame(rt_config, c, rt_flags)[a]]
                        @@ @]
                entered == goto_rust_entrypoint_run(rt_config, crafted)
            IN  /\ ram = << >>
                /\ harts = <<
                     entered
                     @@ [cur |-> 1, events |-> 0, last |-> Returned(rt_config, NoFrame, crafted, crafted),
                         live |-> [c \in 1..n |->
                            IF c = 1
                            THEN << Framed("entry", entered.regs.Sp, 0, reset) >>
                            ELSE << Framed("crafted", Load(crafted.mem, thread_context(tc, c)),
                                       0, reset) >>]] >>

\* Rust code runs on the hart: it is not parked.
Running(m) == m.pc # park_hart_label

\* The value code of context cur at the current nesting computes, v being
\* the number of values of one context.
Computed(m, v) == (MaxEvents + 2) * (m.cur * v) + Len(m.live[m.cur]) + 1

\* The hart after the running code did its work: none, or it overwrote the
\* general registers it owns (all but sp, tp and gp in the runtime's mode,
\* where sp is 24 bytes into its stack; all of them in the lower mode) and,
\* where the runtime supports floating point, the floating-point registers
\* and fcsr, which leaves FS Dirty.
Worked(m, work) ==
    LET tc == rt_config.target_config
        val == Computed(m, 1)
        base == IF m.mode # "M" THEN stack_of(tc, MaxContexts + 1)
                ELSE IF m.live[m.cur] # << >> THEN Innermost(m, m.cur).addr
                ELSE stack_of(tc, m.cur)
        fp == rt_config.floating_point_support
    IN  IF work = "none" THEN m
        ELSE [m EXCEPT
                !.regs = [r \in DOMAIN m.regs |->
                            IF r = "Sp" THEN base - 24
                            ELSE IF r \in {"Tp", "Gp"} /\ m.mode = "M" THEN m.regs[r]
                            ELSE val],
                !.fregs = IF fp THEN [f \in DOMAIN m.fregs |-> val] ELSE @,
                !.fcsr = IF fp THEN val ELSE @,
                !.status = IF fp THEN BitOr(@, STATUS_FS_MASK_DIRTY) ELSE @]

Work == {"none", "all"}

\* The running code works and traps: the hart goes through handle_trap and
\* goto_rust_entrypoint into the trap entrypoint.
Trap ==
  \E work \in Work :
    LET m == Worked(Machine, work)
        entered == goto_rust_entrypoint_run(rt_config,
                       handle_trap_run(rt_config, take_trap(rt_config, m)))
    IN  /\ Running(m)
        /\ m.events < MaxEvents
        /\ Becomes([entered EXCEPT
             !.events = @ + 1,
             !.live[m.cur] = Append(@,
                 Framed("trap", entered.regs.Sp,
                     Load(m.mem, tp_member(rt_config,
                              IF m.scratch = 0 THEN m.regs.Tp ELSE m.scratch,
                              "TrapCtx")),
                     m))])
        /\ UNCHANGED <<pc, linker_vars, rt_vars, asm>>

\* The entrypoint or handler edits its frame, once: as the handler of a
\* call it advances the saved pc by 4 and sets the saved a0, or it retargets
\* the frame to code of the lower privilege mode.
EditFrame ==
    \E edit \in {"call", "lower"} :
        LET m == Machine
            tf == rt_config.trap_frame
            tc == rt_config.target_config
            fr == Innermost(m, m.cur)
            at(idx) == fr.addr + frame_offset(rt_config, idx)
            pp == as_pp(tc.rv_mode)
        IN  /\ Running(m) /\ m.mode = "M"
            /\ m.live[m.cur] # << >>
            /\ fr.kind \in {"entry", "trap"} /\ fr.edited = "no"
            /\ edit = "lower" => m.has_lower_mode
            /\ edit = "call" => fr.kind = "trap"
            /\ m.events < MaxEvents
            /\ Becomes([m EXCEPT
                 !.events = @ + 1,
                 !.live[m.cur][Len(m.live[m.cur])].edited = edit,
                 !.mem =
                   CASE edit = "call" ->
                          (at(csr_idx(tf, "Epc")) :>
                               Load(m.mem, at(csr_idx(tf, "Epc"))) + 4)
                          @@ (at(gr_idx(tf, "A0")) :>
                               Load(m.mem, at(gr_idx(tf, "A0"))) + 1)
                          @@ m.mem
                     [] edit = "lower" ->
                          (at(csr_idx(tf, "Status")) :>
                               Load(m.mem, at(csr_idx(tf, "Status")))
                                 - BitAnd(Load(m.mem, at(csr_idx(tf, "Status"))), pp))
                          @@ (at(csr_idx(tf, "Epc")) :> code_of(MaxContexts + 1))
                          @@ (at(gr_idx(tf, "Sp")) :> stack_of(tc, MaxContexts + 1))
                          @@ m.mem])
            /\ UNCHANGED <<pc, linker_vars, rt_vars, asm>>

\* The entrypoint or handler works and returns, with sp where it was
\* entered, to _restore_trap_frame.
Return ==
    LET m == Worked(Machine, "all")
        fr == Innermost(m, m.cur)
        before == [m EXCEPT !.regs = [@ EXCEPT !.Sp = fr.addr]]
        after == restore_trap_frame_run(rt_config, before)
    IN  /\ Running(m) /\ m.mode = "M"
        /\ m.live[m.cur] # << >>
        /\ fr.kind \in {"entry", "trap"}
        /\ m.events < MaxEvents
        /\ Becomes([after EXCEPT
             !.events = @ + 1,
             !.live[m.cur] = SubSeq(@, 1, Len(@) - 1),
             !.last = Returned(rt_config, fr, before, after)])
        /\ UNCHANGED <<pc, linker_vars, rt_vars, asm>>

\* The running context works and calls switch_to with the ThreadContext of
\* context c, which holds a frame.
SwitchTo ==
    \E c \in DOMAIN harts[1].live :
        LET m == Worked(Machine, "all")
            tc == rt_config.target_config
            call == [m EXCEPT !.regs = [@ EXCEPT !.A0 = thread_context(tc, c),
                                                  !.Ra = m.pc + 4]]
            before == switch_to_run(rt_config, call)
            after == restore_trap_frame_run(rt_config, before)
        IN  /\ Running(m) /\ m.mode = "M"
            /\ m.events < MaxEvents
            /\ c # m.cur
            /\ Load(m.mem, thread_context(tc, c)) # 0
            /\ Becomes([after EXCEPT
                 !.events = @ + 1,
                 !.cur = c,
                 !.live = [@ EXCEPT
                     ![m.cur] = Append(@,
                         [Framed("switch",
                              (call.regs.Sp - trap_frame_size(rt_config, tc))
                                - ((call.regs.Sp - trap_frame_size(rt_config, tc)) % 16),
                              Load(m.mem, tp_member(rt_config, m.regs.Tp, "TrapCtx")),
                              call)
                          EXCEPT !.snap.pc = call.regs.Ra]),
                     ![c] = SubSeq(@, 1, Len(@) - 1)],
                 !.last = Returned(rt_config, Innermost(m, c), before, after)])
            /\ UNCHANGED <<pc, linker_vars, rt_vars, asm>>

NextTrap ==
    \/ Trap
    \/ EditFrame
    \/ Return
    \/ SwitchTo

SpecTrap == InitTrap /\ [][NextTrap]_vars

(***************************************************************************)
(* Properties of the memory layout engine (LinkerConfig::new).             *)
(***************************************************************************)
\* LinkerConfig::new has returned a LinkerConfig.
Accepted == pc \notin {"declared", "panicked"}

PowerOfTwo(n) == \E e \in 0..30 : n = 2^e

NapotLaw(base, length) == PowerOfTwo(length) /\ base % length = 0

\* The base of the j-th sub-region: the region's base plus the lengths of
\* the sub-regions declared before it.
SubBase(region, j) == region.base + SumLengths(region.sub_regions, j - 1)

NapotRespected(region) ==
    /\ region.napot => NapotLaw(region.base, region.length)
    /\ \A j \in 1..Len(region.sub_regions) :
         region.sub_regions[j].napot =>
           /\ region.napot
           /\ NapotLaw(SubBase(region, j), region.sub_regions[j].length)

\* C1: a region flagged NAPOT is accepted only if its length is a power of
\* two and its base a multiple of its length, a NAPOT sub-region only inside
\* a NAPOT parent and only if it obeys the same law at its own computed base;
\* when some region or sub-region breaks this, LinkerConfig::new panics and
\* no LinkerConfig exists.
C1_NapotValidated ==
    (pc # "declared" /\ \E i \in 1..Len(memory_regions) : ~NapotRespected(memory_regions[i]))
        => (pc = "panicked" /\ memories = <<>> /\ sections = <<>>)

\* A NAPOT parent that obeys the law with a NAPOT sub-region that breaks it
\* at its computed base: construction has panicked.
C1_Witness ==
    /\ pc = "panicked"
    /\ err = "not_aligned"
    /\ \E i \in 1..Len(memory_regions) :
         LET region == memory_regions[i]
         IN  /\ region.napot
             /\ NapotLaw(region.base, region.length)
             /\ \E j \in 1..Len(region.sub_regions) :
                  /\ region.sub_regions[j].napot
                  /\ SubBase(region, j) # region.base
                  /\ PowerOfTwo(region.sub_regions[j].length)
                  /\ SubBase(region, j) % region.sub_regions[j].length # 0

\* C2: in an accepted declaration the Memory of the j-th sub-region of a
\* region starts at the region's base plus the lengths of the sub-regions
\* before it, and the sub-regions together are no longer than the region; a
\* declaration whose sub-regions run past the region's end is rejected.
C2_SubRegionBases ==
    /\ Accepted =>
         \A i \in 1..Len(memory_regions) :
           LET region == memory_regions[i]
           IN  /\ SumLengths(region.sub_regions, Len(region.sub_regions)) <= region.length
               /\ \A j \in 1..Len(region.sub_regions) :
                    \E m \in 1..Len(memories) :
                      /\ memories[m].name = region.sub_regions[j].name
                      /\ memories[m].base = SubBase(region, j)
                      /\ memories[m].length = region.sub_regions[j].length
    /\ (pc # "declared" /\ \E i \in 1..Len(memory_regions) :
            SumLengths(memory_regions[i].sub_regions, Len(memory_regions[i].sub_regions))
                > memory_regions[i].length)
         => pc = "panicked"

\* An accepted region filled exactly by three sub-regions, the third of which
\* starts past the second.
C2_Witness ==
    /\ Accepted
    /\ \E i \in 1..Len(memory_regions) :
         LET region == memory_regions[i]
         IN  /\ Len(region.sub_regions) = 3
             /\ SumLengths(region.sub_regions, 3) = region.length
             /\ \E m \in 1..Len(memories) :
                  /\ memories[m].name = region.sub_regions[3].name
                  /\ memories[m].base = region.base + region.sub_regions[1].length
                                                    + region.sub_regions[2].length

\* C3: the memories of a LinkerConfig are in non-decreasing order of base,
\* whatever the declaration order, and remain so through every section
\* registration and script emission.
C3_MemoriesSorted ==
    \A i, j \in 1..Len(memories) : i < j => memories[i].base <= memories[j].base

\* Regions declared in descending order of base, emitted twice, with the
\* Sections registered on the memories.
C3_Witness ==
    /\ pc = "linker_written"
    /\ emissions = 2
    /\ Len(memory_regions) >= 2
    /\ memory_regions[1].base > memory_regions[2].base
    /\ \E m \in 1..Len(memories) : Len(memories[m].sections) >= 2

\* The memory whose Sections the end-alignment rule looks at for a region:
\* its last sub-region when it has sub-regions, the region itself otherwise.
AlignedMemoryOf(region) ==
    IF Len(region.sub_regions) = 0 THEN region.name
    ELSE region.sub_regions[Len(region.sub_regions)].name

\* The NAPOT regions that are not the last region of the declaration.
NonTrailingNapot ==
    {i \in 1..(Len(memory_regions) - 1) : memory_regions[i].napot}

\* Section k is the last declared Section mapped to the memory of region i.
SelectedBy(i, k) ==
    /\ decl_sections[k].target_memory = AlignedMemoryOf(memory_regions[i])
    /\ \A h \in (k + 1)..Len(decl_sections) :
         decl_sections[h].target_memory # AlignedMemoryOf(memory_regions[i])

\* C4: after LinkerConfig::new every NAPOT region but the last has a last
\* Section mapped to it (to its last sub-region when it has sub-regions)
\* and that Section's end alignment is the region's length; every other
\* Section keeps the end alignment it was declared with, the Sections of the
\* trailing region included even when that region is NAPOT.
C4_EndAlignment ==
    Accepted =>
      /\ \A i \in NonTrailingNapot : \E k \in 1..Len(sections) : SelectedBy(i, k)
      /\ \A k \in 1..Len(sections) :
           /\ \A i \in NonTrailingNapot :
                SelectedBy(i, k) =>
                  sections[k].end_alignment_in_bytes = memory_regions[i].length
           /\ (~\E i \in NonTrailingNapot : SelectedBy(i, k)) =>
                sections[k].end_alignment_in_bytes
                    = decl_sections[k].end_alignment_in_bytes

\* Two Sections on a NAPOT first region and a NAPOT trailing region: only the
\* second Section has the first region's length as end alignment.
C4_Witness ==
    /\ Accepted
    /\ Len(memory_regions) >= 2
    /\ memory_regions[1].napot
    /\ memory_regions[Len(memory_regions)].napot
    /\ Len(sections) = 2
    /\ sections[1].target_memory = memory_regions[1].name
    /\ sections[2].target_memory = memory_regions[1].name
    /\ sections[1].end_alignment_in_bytes = SectionAlignment
    /\ sections[2].end_alignment_in_bytes = memory_regions[1].length

\* Region i is a non-trailing NAPOT region of 64 KiB made of a non-NAPOT
\* sub-region of 56 KiB and a NAPOT sub-region of 8 KiB.
Composite64(i) ==
    /\ i \in NonTrailingNapot
    /\ memory_regions[i].length = 64 * KiB
    /\ Len(memory_regions[i].sub_regions) = 2
    /\ memory_regions[i].sub_regions[1].length = 56 * KiB
    /\ ~memory_regions[i].sub_regions[1].napot
    /\ memory_regions[i].sub_regions[2].length = 8 * KiB
    /\ memory_regions[i].sub_regions[2].napot

\* C5 as stated: in the 64 KiB composite the Section mapped to the 8 KiB
\* sub-region has its end alignment raised to 8 KiB.
C5_RaisedToSubRegionLength ==
    Accepted =>
      \A i \in 1..Len(memory_regions) :
        Composite64(i) =>
          \A k \in 1..Len(sections) :
            SelectedBy(i, k) => sections[k].end_alignment_in_bytes = 8 * KiB

\* C5: in the 64 KiB composite the last Section mapped to the 8 KiB
\* sub-region has its end alignment raised to the length of the region,
\* 64 KiB.
C5_RaisedToRegionLength ==
    Accepted =>
      \A i \in 1..Len(memory_regions) :
        Composite64(i) =>
          /\ \E k \in 1..Len(sections) : SelectedBy(i, k)
          /\ \A k \in 1..Len(sections) :
               SelectedBy(i, k) => sections[k].end_alignment_in_bytes = 64 * KiB

\* The composite accepted with a Section of 4 KiB alignment on its 8 KiB
\* sub-region: the Section's end alignment is 64 KiB.
C5_Witness ==
    /\ Accepted
    /\ \E i \in 1..Len(memory_regions) :
         /\ Composite64(i)
         /\ \E k \in 1..Len(sections) :
              /\ sections[k].target_memory = memory_regions[i].sub_regions[2].name
              /\ decl_sections[k].end_alignment_in_bytes = 4 * KiB
              /\ sections[k].end_alignment_in_bytes = 64 * KiB

\* The names of the declared regions and sub-regions.
DeclaredMemoryNames ==
    UNION { {memory_regions[i].name}
            \cup {memory_regions[i].sub_regions[j].name :
                    j \in 1..Len(memory_regions[i].sub_regions)}
            : i \in 1..Len(memory_regions) }

\* Some declared Section names a memory that no region or sub-region has.
SomeTargetUndeclared ==
    \E k \in 1..Len(decl_sections) :
      decl_sections[k].target_memory \notin DeclaredMemoryNames

\* C6 as stated: LinkerConfig::new fails whenever a Section names an
\* undeclared target memory, so no LinkerConfig holds such a Section.
C6_ConstructionRejectsUndeclared ==
    Accepted => \A k \in 1..Len(sections) :
                  sections[k].target_memory \in DeclaredMemoryNames

\* C6: a Section that names an undeclared target memory is rejected at the
\* latest when the linker script is generated: LinkerBuilder's
\* add_section_to_memory panics, so a LinkerConfig holding such a Section is
\* never emitted: no script is generated for it.
C6_EmissionRejectsUndeclared ==
    SomeTargetUndeclared =>
      /\ pc \in {"declared", "configured", "panicked"}
      /\ sentences = <<>>

\* A LinkerConfig that was constructed with a Section on an undeclared
\* memory and whose script generation has panicked.
C6_Witness ==
    /\ pc = "panicked"
    /\ err = "target_memory_not_found"
    /\ sections # <<>>
    /\ \E k \in 1..Len(sections) : sections[k].target_memory \notin DeclaredMemoryNames
    /\ sentences = <<>>

(***************************************************************************)
(* Properties of the emitted linker script.                                *)
(***************************************************************************)
\* The positions of the sentences of variant k in the emitted script.
Positions(k) == {p \in 1..Len(sentences) : sentences[p].k = k}

\* The first and the last Section declared on the memory `name`.
FirstSectionOn(name) ==
    CHOOSE k \in 1..Len(sections) :
      /\ sections[k].target_memory = name
      /\ \A h \in 1..(k - 1) : sections[h].target_memory # name

LastSectionOn(name) ==
    CHOOSE k \in 1..Len(sections) :
      /\ sections[k].target_memory = name
      /\ \A h \in (k + 1)..Len(sections) : sections[h].target_memory # name

\* The script has the assertion `a <= b` (n = 0) or `a >= b` (n = 1).
HasAssert(a, b, n) ==
    \E p \in Positions("Assert") :
      sentences[p].a = a /\ sentences[p].b = b /\ sentences[p].n = n

\* C8: the emitted script has one MEMORY line per declared region and
\* sub-region, with its declared (for a sub-region, computed) origin and its
\* length; after every section block and symbol definition it asserts, for
\* every Memory with a Section, `_s<memory> <= _s<first Section>` and
\* `_e<memory> >= _e<last Section>`, and it has no assertion on a Memory
\* without a Section.
C8_ScriptMemoriesAndAsserts ==
    sentences # <<>> =>
      /\ Cardinality(Positions("MemoryLine")) = Cardinality(DeclaredMemoryNames)
      /\ \A i \in 1..Len(memory_regions) :
           LET region == memory_regions[i]
           IN  /\ \E p \in Positions("MemoryLine") :
                    /\ sentences[p].a = region.name
                    /\ sentences[p].n = region.base
                    /\ sentences[p].m = region.length
               /\ \A j \in 1..Len(region.sub_regions) :
                    \E p \in Positions("MemoryLine") :
                      /\ sentences[p].a = region.sub_regions[j].name
                      /\ sentences[p].n = SubBase(region, j)
                      /\ sentences[p].m = region.sub_regions[j].length
      /\ \A p \in Positions("Assert") :
           \A q \in 1..Len(sentences) : sentences[q].k # "Assert" => q < p
      /\ \A name \in DeclaredMemoryNames :
           IF \E k \in 1..Len(sections) : sections[k].target_memory = name
           THEN /\ HasAssert("_s" \o name,
                             "_s" \o sections[FirstSectionOn(name)].ty, 0)
                /\ HasAssert("_e" \o name,
                             "_e" \o sections[LastSectionOn(name)].ty, 1)
                /\ Cardinality({p \in Positions("Assert") :
                                  sentences[p].a \in {"_s" \o name, "_e" \o name}}) = 2
           ELSE \A p \in Positions("Assert") :
                  sentences[p].a \notin {"_s" \o name, "_e" \o name}

\* program.ld written for a composite region and a plain one: two different
\* Sections on one Memory, asserted on, and three Memories with no Section.
C8_Witness ==
    /\ pc = "ld_written"
    /\ Len(memories) = 4
    /\ Len(sections) = 2
    /\ sections[1].target_memory = sections[2].target_memory
    /\ Cardinality(Positions("Assert")) = 2
    /\ HasAssert("_s" \o sections[1].target_memory, "_stext", 0)
    /\ HasAssert("_e" \o sections[1].target_memory, "_erodata", 1)

(***************************************************************************)
(* Properties of the trap frame and thread-pointer block layout.           *)
(***************************************************************************)
\* The fields of a trap frame: the group and the name of each entry.
FrameFields(tf) ==
    {<<"gr", tf.general_regs[i]>> : i \in 1..Len(tf.general_regs)}
    \cup {<<"fr", tf.floating_point_registers[i]>> :
            i \in 1..Len(tf.floating_point_registers)}
    \cup {<<"csr", tf.csrs[i]>> : i \in 1..Len(tf.csrs)}
    \cup {<<"rt", tf.rt_state_values[i]>> : i \in 1..Len(tf.rt_state_values)}

\* The groups in the order they are laid out.
GroupRank(group) ==
    CASE group = "gr" -> 1 [] group = "fr" -> 2 [] group = "csr" -> 3 [] group = "rt" -> 4

\* The offset the generated code uses for field f of tf at register width w.
FieldOffset(tf, w, f) ==
    CASE f[1] = "gr" -> gr_idx(tf, f[2]) * w
      [] f[1] = "fr" -> fr_idx(tf, first_idx(tf.floating_point_registers, f[2])) * w
      [] f[1] = "csr" -> csr_idx(tf, f[2]) * w
      [] f[1] = "rt" -> rt_state_idx(tf, f[2]) * w

\* The offsets of the n fields are pairwise distinct and are 0, w, .., (n-1)w.
ContiguousFrame(tf, w) ==
    LET n == Cardinality(FrameFields(tf))
    IN  /\ \A f, g \in FrameFields(tf) :
             f # g => FieldOffset(tf, w, f) # FieldOffset(tf, w, g)
        /\ {FieldOffset(tf, w, f) : f \in FrameFields(tf)} = {k * w : k \in 0..(n - 1)}

ContiguousTpBlock(members, w) ==
    /\ \A i, j \in 1..Len(members) :
         i # j => member_idx(members, members[i]) * w # member_idx(members, members[j]) * w
    /\ {member_idx(members, members[i]) * w : i \in 1..Len(members)}
          = {k * w : k \in 0..(Len(members) - 1)}

\* Every layout at hand is contiguous: the TpBlock, the TrapFrame the build
\* script fills and the one of the RtConfig, whose size is n * w.
LayoutsContiguous ==
    LET w == xlen_bytes(target_config)
    IN  /\ ContiguousTpBlock(TpBlock_get_default, w)
        /\ ContiguousFrame(trap_frame, w)
        /\ rt_config.constructed =>
             /\ ContiguousFrame(rt_config.trap_frame, w)
             /\ trap_frame_size(rt_config, target_config)
                  = Cardinality(FrameFields(rt_config.trap_frame)) * w

\* The trap frame after the step: the one RtConfig::new has just returned,
\* or the one the build script has pushed on.
FrameAfterStep ==
    IF rt_config'.constructed /\ ~rt_config.constructed
    THEN rt_config'.trap_frame ELSE trap_frame'

\* The step leaves the offset of every field it found in place.
AppendKeepsEveryOffset ==
    LET w == xlen_bytes(target_config)
    IN  \A f \in FrameFields(trap_frame) :
          FieldOffset(FrameAfterStep, w, f) = FieldOffset(trap_frame, w, f)

\* The step moves every field it found by w for each field it has added to a
\* group laid out before the field's own group, and by nothing else.
AppendShiftsLaterGroups ==
    LET w == xlen_bytes(target_config)
        added == FrameFields(FrameAfterStep) \ FrameFields(trap_frame)
    IN  \A f \in FrameFields(trap_frame) :
          FieldOffset(FrameAfterStep, w, f)
            = FieldOffset(trap_frame, w, f)
              + w * Cardinality({a \in added : GroupRank(a[1]) < GroupRank(f[1])})

\* C9 as stated: the field offsets of every TrapFrame and TpBlock are
\* pairwise distinct and are 0, w, .., (n-1)w, and appending a field (the
\* floating-point registers of RtConfig::new included) leaves the offset of
\* every field already present unchanged.
C9_OffsetsStableUnderAppend ==
    []LayoutsContiguous /\ [][AppendKeepsEveryOffset]_vars

\* C9: the field offsets of every TrapFrame and TpBlock are pairwise
\* distinct and are 0, w, .., (n-1)w; the frame is laid out group by group
\* (general registers, floating-point registers, CSRs, runtime state), so
\* appending a field leaves unchanged the offsets of the fields of its own
\* group and of the groups before it, and raises by w the offset of every
\* field of the groups after it.
C9_OffsetsStableWithinGroup ==
    []LayoutsContiguous /\ [][AppendShiftsLaterGroups]_vars

\* RtConfig::new has appended floating-point registers to a frame the build
\* script pushed on: Status has moved up by w for each of them.
C9_Witness ==
    /\ rt_config.constructed
    /\ rt_config.floating_point_support
    /\ pushes >= 1
    /\ contains(trap_frame.csrs, "Status")
    /\ Len(trap_frame.floating_point_registers) < 32
    /\ Len(rt_config.trap_frame.floating_point_registers) = 32
    /\ FieldOffset(rt_config.trap_frame, xlen_bytes(target_config), <<"csr", "Status">>)
         = FieldOffset(trap_frame, xlen_bytes(target_config), <<"csr", "Status">>)
           + xlen_bytes(target_config)
               * (32 - Len(trap_frame.floating_point_registers))

\* The number of places of list that hold x.
Occurrences(list, x) == Cardinality({p \in 1..Len(list) : list[p] = x})

\* C10: with floating-point support RtConfig::new returns a frame whose
\* floating-point list holds each of F0 .. F31 once, the supplied registers
\* first and in their order, whose CSR list holds Fcsr once after the
\* supplied CSRs, and which the extension maps to itself; without
\* floating-point support the frame is the supplied one.
C10_FloatingPointExtension ==
    rt_config.constructed =>
      LET got == rt_config.trap_frame
      IN  IF rt_config.floating_point_support
          THEN /\ \A i \in 0..31 :
                    Occurrences(got.floating_point_registers, "F" \o ToString(i)) = 1
               /\ Len(got.floating_point_registers) = 32
               /\ SubSeq(got.floating_point_registers, 1,
                         Len(trap_frame.floating_point_registers))
                    = trap_frame.floating_point_registers
               /\ Occurrences(got.csrs, "Fcsr") = 1
               /\ SubSeq(got.csrs, 1, Len(trap_frame.csrs)) = trap_frame.csrs
               /\ Len(got.csrs) <= Len(trap_frame.csrs) + 1
               /\ got.general_regs = trap_frame.general_regs
               /\ got.rt_state_values = trap_frame.rt_state_values
               /\ RtConfig_new(got, TRUE).trap_frame = got
          ELSE got = trap_frame

\* A frame supplied with F31, F0 and Fcsr: the extension keeps F31 and F0 in
\* front, appends F1 .. F30 and adds no second Fcsr.
C10_Witness ==
    /\ rt_config.constructed
    /\ rt_config.floating_point_support
    /\ trap_frame.floating_point_registers = <<"F31", "F0">>
    /\ contains(trap_frame.csrs, "Fcsr")
    /\ SubSeq(rt_config.trap_frame.floating_point_registers, 1, 3) = <<"F31", "F0", "F1">>
    /\ rt_config.trap_frame.floating_point_registers[32] = "F30"
    /\ rt_config.trap_frame.csrs = trap_frame.csrs

(***************************************************************************)
(* Properties of the file pipeline.                                        *)
(***************************************************************************)
\* C7 as stated: a validation or generation failure of write_rv_runtime_files
\* happens before any output file is written: no run writes an artifact and
\* then aborts.
C7_NoFileBeforeAbort == pc = "panicked" => files = {}

(***************************************************************************)
(* Properties of the generated assembly.                                   *)
(***************************************************************************)
\* The instructions with a 12-bit immediate field.
Imm12Ops ==
    {"li_constrained", "addi", "andi", "xori", "load", "store", "fload", "fstore", "jalr"}

\* Some instruction of code has a 12-bit immediate field and an immediate
\* outside -2048..2047.
OutOfRange(code) ==
    \E i \in 1..Len(code) : code[i].op \in Imm12Ops /\ code[i].imm \notin -2048..2047

\* C12: the generated assembly holds no instruction whose 12-bit immediate
\* is outside -2048..2047: no addi, andi, xori or constrained li is ever
\* added with such an immediate, the sentences that are printed hold no
\* load, store, float load, float store or jalr with such an offset, and
\* whenever the code of a configuration asks for such an immediate the
\* generation panics and never gets to print.
C12_ImmediatesInRange ==
    /\ \A i \in 1..Len(asm.sentences) :
         asm.sentences[i].op \in {"li_constrained", "addi", "andi", "xori"}
            => asm.sentences[i].imm \in -2048..2047
    /\ asm.at = "generated" => ~OutOfRange(asm.sentences)
    /\ (asm.at # "none" /\ OutOfRange(boot_s_code(asm.rt_config)))
          => asm.at # "generated"
    /\ (asm.at = "panicked") => OutOfRange(boot_s_code(asm.rt_config))

\* A max_hart_count of 2048 is rejected by the constrained li of the bounds
\* check, and a frame of 256 slots by the addi of restore_trap_frame, which
\* leaves a load with an offset of 2048 among the sentences never printed.
C12_Witness ==
    /\ asm.at = "panicked"
    /\ asm.rt_config.target_config.max_hart_count = 4
    /\ OutOfRange(asm.sentences)

\* The sentences hold the amoadd on boot_idx.
HasAmoadd == \E i \in 1..Len(asm.sentences) : asm.sentences[i].op = "amoadd"

\* The sentences hold mov boot_id, zero.
AssignsBootIdZero ==
    \E i \in 1..Len(asm.sentences) :
        asm.sentences[i] = InsOn("add", <<"boot_id", "zero", "zero">>)

\* C20 as stated: the boot id is assigned by amoadd exactly on multi-hart
\* targets whose harts share the reset vector, and is 0 without an atomic
\* on every other target.
C20_AtomicOnlyOnSharedVector ==
    asm.at \notin {"none", "new"} =>
        /\ HasAmoadd <=> multihart_reset_handling_required(asm.rt_config.target_config)
        /\ AssignsBootIdZero <=> ~multihart_reset_handling_required(asm.rt_config.target_config)

\* C20: the boot id is assigned by amoadd exactly on multi-hart targets
\* (max_hart_count > 1), whether or not the harts share the reset vector,
\* and is 0 without an amoadd exactly on single-hart targets.
C20_AtomicOnMultiHart ==
    asm.at \notin {"none", "new"} =>
        /\ HasAmoadd <=> is_multi_hart(asm.rt_config.target_config)
        /\ AssignsBootIdZero <=> ~is_multi_hart(asm.rt_config.target_config)

\* A generated multi-hart target whose harts do not share the reset vector.
C20_Witness ==
    /\ asm.at = "generated"
    /\ is_multi_hart(asm.rt_config.target_config)
    /\ ~asm.rt_config.target_config.all_harts_start_at_reset_vector
    /\ HasAmoadd

(***************************************************************************)
(* Properties of the generated start code, run by several harts.           *)
(***************************************************************************)
\* The positions of a hart after common_hart_init.
PastInit ==
    {"zero_bss", "_secondary_start", "wait_for_bss_init_done",
     "jump_to_rust_entrypoint", "BootHart", "NonBootHart", "returned", "StackOverflow"}

\* The positions of a hart after protect_stack.
PastProtect == {"BootHart", "NonBootHart", "returned", "StackOverflow"}

\* The positions of a hart after zero_bss or wait_for_bss_init_done.
PastBss == {"jump_to_rust_entrypoint"} \cup PastProtect

\* C11 as stated: a hart with boot id b gets the stack pointer
\* stack_top - (b + 1) * per_hart_stack_size, and its guard word lies one
\* more per-hart stack size below, at stack_top - (b + 2) * per_hart_stack_size.
C11_StackPointerOneStackBelow ==
    \A h \in DOMAIN harts :
        LET tc == rt_config.target_config
            b == harts[h].boot_id
        IN  /\ harts[h].at \in PastInit =>
                 harts[h].sp = stack_top_symbol(tc) - (b + 1) * tc.per_hart_stack_size
            /\ harts[h].at \in PastProtect /\ rt_config.stack_overflow_detection =>
                 stack_top_symbol(tc) - (b + 2) * tc.per_hart_stack_size
                     \in ram.sentries

\* C11: a hart with boot id b gets the stack pointer
\* stack_top - b * per_hart_stack_size; its guard word lies one per-hart
\* stack size below that stack pointer, at
\* stack_top - (b + 1) * per_hart_stack_size, and that is the word the stack
\* check reads when the entrypoint returns, so the check passes.
C11_StackPointerAndGuard ==
    \A h \in DOMAIN harts :
        LET tc == rt_config.target_config
            b == harts[h].boot_id
            guard == stack_top_symbol(tc) - (b + 1) * tc.per_hart_stack_size
        IN  /\ harts[h].at \in PastInit =>
                 /\ harts[h].sp = stack_top_symbol(tc) - b * tc.per_hart_stack_size
                 /\ harts[h].sp - tc.per_hart_stack_size = guard
                 /\ guard >= stack_top_symbol(tc) - stack_region_size(tc)
            /\ harts[h].at \in PastProtect /\ rt_config.stack_overflow_detection =>
                 guard \in ram.sentries
            /\ harts[h].at # "StackOverflow"
            /\ harts[h].at = "returned" => harts[h].stack_bottom = guard

\* The spec's scenario has run: of 3 or more harts with stacks of 8 KiB,
\* the hart with boot id 2 has installed its guard word 3 * 8192 below
\* _stack_top, with its stack pointer 2 * 8192 below it, and has passed the
\* stack check.
C11_Witness ==
    \E h \in DOMAIN harts :
        /\ rt_config.stack_overflow_detection
        /\ rt_config.target_config.per_hart_stack_size = 8192
        /\ harts[h].boot_id = 2
        /\ harts[h].at = "returned"
        /\ harts[h].sp = stack_top_symbol(rt_config.target_config) - 2 * 8192
        /\ harts[h].stack_bottom = stack_top_symbol(rt_config.target_config) - 3 * 8192
        /\ harts[h].stack_bottom \in ram.sentries

\* C13: where all harts enter at the reset vector of a multi-hart target,
\* the harts that get past the bounds check hold pairwise distinct boot ids
\* below max_hart_count, so distinct TpBlocks and disjoint stacks, and a
\* hart whose fetched boot id is max_hart_count or more is parked: it is
\* never past the bounds check.
C13_DistinctBootIdsOrParked ==
    multihart_reset_handling_required(rt_config.target_config) =>
        LET tc == rt_config.target_config
        IN  /\ \A h \in DOMAIN harts :
                 /\ harts[h].at \in PastInit \cup {"init"} =>
                      /\ harts[h].boot_id < tc.max_hart_count
                      /\ harts[h].at \in PastInit =>
                           /\ ram.tp_block[harts[h].boot_id].hart_id = h
                           /\ harts[h].tp =
                                Len(rt_config.tp_block) * xlen_bytes(tc) * harts[h].boot_id
                 /\ (harts[h].at # "reset" /\ harts[h].boot_id >= tc.max_hart_count) =>
                      harts[h].at = "_park_hart"
            /\ \A h1, h2 \in DOMAIN harts :
                 h1 # h2 /\ harts[h1].at # "reset" /\ harts[h2].at # "reset" =>
                     /\ harts[h1].boot_id # harts[h2].boot_id
                     /\ harts[h1].at \in PastInit /\ harts[h2].at \in PastInit =>
                          /\ harts[h1].tp # harts[h2].tp
                          /\ \/ harts[h1].sp + tc.per_hart_stack_size <= harts[h2].sp
                             \/ harts[h2].sp + tc.per_hart_stack_size <= harts[h1].sp

\* Three harts left the shared reset vector of a target of two: two are in
\* their entrypoints and the third, with boot id 2, is parked.
C13_Witness ==
    /\ multihart_reset_handling_required(rt_config.target_config)
    /\ rt_config.target_config.max_hart_count = 2
    /\ \E h1, h2, h3 \in DOMAIN harts :
         /\ harts[h1].at = "BootHart"
         /\ harts[h2].at = "NonBootHart"
         /\ harts[h3].at = "_park_hart" /\ harts[h3].boot_id = 2

Last == Machine.last

\* The last mode_ret returned from the frame of a trap to the code the trap
\* interrupted.
ReturnedFromTrap == Last.kind = "trap" /\ Last.edited # "lower"

\* C15: with floating-point support, after the return from a trap whose
\* handler overwrote the floating-point registers, the interrupted code finds
\* the floating-point registers it had at the trap.
C15_FpRegistersSurviveTraps ==
    rt_config.floating_point_support /\ ReturnedFromTrap
        => Last.fregs_as_framed

\* C16: after the return from the frame of a trap every general register the
\* frame lists holds the value of its slot and execution is at the frame's
\* saved exception pc; with the frame as create_trap_frame left it these are
\* the registers and the pc of the trap, and with the saved pc advanced by 4
\* execution is at the instruction after the trapping one.
C16_RegistersAndPcFromFrame ==
    Last.kind = "trap"
        => /\ Last.regs_from_slots
           /\ Last.pc = Last.epc_slot
           /\ Last.edited = "no" => Last.regs_as_framed /\ Last.pc = Last.framed_pc
           /\ Last.edited = "call" => Last.regs_as_framed /\ Last.pc = Last.framed_pc + 4

\* A handler advanced the saved pc by 4 and returned: the registers are those
\* of the frame's slots and execution is 4 past the trapping instruction.
C16_Witness ==
    /\ Last.kind = "trap" /\ Last.edited = "call"
    /\ Last.pc = Last.framed_pc + 4
    /\ Last.regs_from_slots

\* The ThreadContext the TpBlock names as current, and the saved-frame
\* pointer (priv_ctx) of context c.
CurrContext == Load(Machine.mem,
                   tp_member(rt_config, tp_block_symbol(target_config), "CurrContext"))

priv_ctx(c) == Load(Machine.mem, thread_context(target_config, c))

\* C17: a context resumed by switch_to is at the instruction after its own
\* switch_to call with the stack pointer and the registers it had at the
\* call; after any sequence of switches the TpBlock's current context is the
\* running one, whose saved-frame pointer is zero, and the saved-frame
\* pointer of every other context is the address of its saved frame.
C17_SwitchToResumesCaller ==
    /\ Last.kind = "switch" => Last.pc = Last.framed_pc /\ Last.regs_as_framed
    /\ CurrContext = thread_context(target_config, Machine.cur)
    /\ \A c \in DOMAIN Machine.live :
          IF c = Machine.cur THEN priv_ctx(c) = 0
          ELSE /\ Machine.live[c] # << >>
               /\ Innermost(Machine, c).kind \in {"switch", "crafted"}
               /\ priv_ctx(c) = Innermost(Machine, c).addr
               /\ priv_ctx(c) # 0

\* Context 1 called switch_to for context 2, context 2 called it for
\* context 1, and context 1 is back after its call.
C17_Witness ==
    /\ Last.kind = "switch" /\ Machine.cur = 1
    /\ Last.pc = Last.framed_pc /\ Last.regs_as_framed
    /\ Innermost(Machine, 2).kind = "switch"
    /\ priv_ctx(2) = Innermost(Machine, 2).addr

\* C18: with floating-point support, a return through restore_trap_frame
\* leaves the floating-point registers with the values of the frame's slots
\* if the frame's FsStateWasDirty flag is set, whatever its other flags, and
\* as they were at _restore_trap_frame if it is not.
C18_FpReloadedIffFlagged ==
    rt_config.floating_point_support /\ Last.kind # "none"
        => IF BitAnd(Last.rt_flags, as_mask("FsStateWasDirty")) # 0
           THEN Last.fregs_from_slots
           ELSE Last.fregs_untouched

\* The TpBlock's active-trap-frame pointer.
TrapCtx == Load(Machine.mem,
               tp_member(rt_config, tp_block_symbol(target_config), "TrapCtx"))

\* An entrypoint or trap handler of the running context runs, in the frame
\* that is the context's innermost.
HandlerRuns ==
    /\ Running(Machine) /\ Machine.mode = "M"
    /\ Machine.live[Machine.cur] # << >>
    /\ Innermost(Machine, Machine.cur).kind \in {"entry", "trap"}

\* The InterruptedTrapFrameAddr slot of frame fr.
InterruptedTrapFrameAddr(fr) ==
    Load(Machine.mem,
        fr.addr + frame_offset(rt_config,
                      rt_state_idx(rt_config.trap_frame, "InterruptedTrapFrameAddr")))

\* C19: while an entrypoint or trap handler runs, the TpBlock's
\* active-trap-frame pointer is the address of the running context's
\* innermost live frame; every live frame records the pointer found when it
\* was created; and a return writes the recorded pointer back if the frame
\* carries RestoreTrapFrameInTpBlock and leaves the pointer alone if not.
C19_TrapCtxIsInnermostFrame ==
    /\ HandlerRuns => TrapCtx = Innermost(Machine, Machine.cur).addr
    /\ \A c \in DOMAIN Machine.live : \A i \in DOMAIN Machine.live[c] :
          Machine.live[c][i].kind \in {"entry", "trap", "switch"}
              => InterruptedTrapFrameAddr(Machine.live[c][i]) = Machine.live[c][i].prev
    /\ Last.kind # "none"
          => /\ Last.kind # "crafted" => Last.recorded = Last.prev
             /\ Last.trap_ctx = IF BitAnd(Last.rt_flags,
                                       as_mask("RestoreTrapFrameInTpBlock")) # 0
                                THEN Last.recorded ELSE Last.trap_ctx_before

\* A nested trap returned to the handler it interrupted: the pointer was
\* the nested frame's and is again the frame of that handler.
C19_Witness ==
    /\ HandlerRuns
    /\ Last.kind = "trap" /\ ~Last.first_level
    /\ Innermost(Machine, Machine.cur).kind = "trap"
    /\ TrapCtx = Innermost(Machine, Machine.cur).addr
    /\ Last.trap_ctx_before # TrapCtx

(***************************************************************************)
(* Properties of a start without BSS clearing.                             *)
(***************************************************************************)
\* C21 as the specification states it: with BSS clearing skipped on a
\* multi-hart target no non-boot hart reaches its entrypoint.
C21_NonBootHartsNeverEnter ==
    rt_config.skip_bss_clearing /\ is_multi_hart(rt_config.target_config)
        => \A h \in DOMAIN harts : harts[h].at # "NonBootHart"

\* C21: with BSS clearing skipped the BSS-ready flag is never set and no
\* hart branches back on it: the non-boot harts go on to their entrypoint
\* unheld.
C21_SkippedBssIsNotWaitedFor ==
    rt_config.skip_bss_clearing
        => /\ ram.bss_init_done = 0
           /\ ram.pending = {}
           /\ \A h \in DOMAIN harts : harts[h].at # "wait_for_bss_init_done"

\* On a multi-hart target without BSS clearing a non-boot hart is in its
\* entrypoint while the boot hart has not yet passed zero_bss.
C21_Witness ==
    /\ rt_config.skip_bss_clearing /\ is_multi_hart(rt_config.target_config)
    /\ ram.bss_init_done = 0
    /\ \E h, b \in DOMAIN harts :
          /\ harts[h].at = "NonBootHart"
          /\ harts[b].at = "zero_bss"

C29_SwitchResumesInCallersMode ==
    Last.kind = "switch" => Last.mode = "M"

(***************************************************************************)
(* The blocks of the emitted script.                                       *)
(***************************************************************************)
\* The script of program.ld is there.
ScriptWritten == pc = "ld_written"

\* Where the block `.name` starts in the script, 0 when it has none.
BlockStartOf(name) ==
    LET hits == {i \in 1..Len(sentences) :
                    sentences[i].k = "OutputSectionStart" /\ sentences[i].a = name}
    IN  IF hits = {} THEN 0 ELSE CHOOSE i \in hits : \A h \in hits : i <= h

\* Where the block that starts at `from` ends.
BlockEndOf(from) ==
    CHOOSE j \in from..Len(sentences) :
        /\ sentences[j].k = "OutputSectionEnd"
        /\ \A i \in from..(j - 1) : sentences[i].k # "OutputSectionEnd"

\* The number of sentences a SubSection makes.
SubSectionLen(ss) == IF ss.max_size.some THEN 6 ELSE 5

\* SubSection ss is emitted from index i on: align, start symbol, input
\* section match (in KEEP when marked keep), align, end symbol, and the
\* assertion end - start <= max when it has a maximum size.
SubSectionAt(i, ss) ==
    /\ i + SubSectionLen(ss) - 1 <= Len(sentences)
    /\ sentences[i].k = "Align" /\ sentences[i].n = ss.alignment_in_bytes
    /\ sentences[i + 1].k = "SetToCurrent"
    /\ sentences[i + 1].a = "_s" \o section_symbol_suffix(ss)
    /\ sentences[i + 2].k = "InputSections"
    /\ sentences[i + 2].a = joined(ss.input_section, ".")
    /\ (sentences[i + 2].b = "KEEP") <=> ss.mark_as_keep
    /\ sentences[i + 3].k = "Align" /\ sentences[i + 3].n = ss.alignment_in_bytes
    /\ sentences[i + 4].k = "SetToCurrent"
    /\ sentences[i + 4].a = "_e" \o section_symbol_suffix(ss)
    /\ ss.max_size.some =>
         /\ sentences[i + 5].k = "Assert" /\ sentences[i + 5].n = 2
         /\ sentences[i + 5].a = "_e" \o section_symbol_suffix(ss)
         /\ sentences[i + 5].b = "_s" \o section_symbol_suffix(ss)
         /\ sentences[i + 5].m = ss.max_size.value

RECURSIVE SubSectionsFrom(_, _, _)
\* The SubSections from the n-th on are emitted one after the other from
\* index i on, in declaration order.
SubSectionsFrom(i, subs, n) ==
    \/ n > Len(subs)
    \/ /\ SubSectionAt(i, subs[n])
       /\ SubSectionsFrom(i + SubSectionLen(subs[n]), subs, n + 1)

RECURSIVE SubSectionsLen(_, _)
SubSectionsLen(subs, n) ==
    IF n = 0 THEN 0 ELSE SubSectionsLen(subs, n - 1) + SubSectionLen(subs[n])

\* The SubSections of `section` stand in its block, after the default input
\* sections and before the end alignment.
SubSectionsInBlock(section) ==
    LET from == BlockStartOf(section_entry_name(section.ty))
    IN  /\ from # 0
        /\ \E i \in from..BlockEndOf(from) :
             /\ SubSectionsFrom(i, section.subsections, 1)
             /\ \A d \in from..BlockEndOf(from) :
                  (/\ sentences[d].k = "InputSections"
                   /\ sentences[d].a \in Range(default_sections(section.ty))) => d < i
             /\ i + SubSectionsLen(section.subsections, Len(section.subsections))
                  <= BlockEndOf(from) - 2
             /\ sentences[BlockEndOf(from) - 2].k = "Align"
             /\ sentences[BlockEndOf(from) - 2].n = section.end_alignment_in_bytes

\* The standard Sections of the types `tys` that carry SubSections.
WithSubSections(tys) ==
    {k \in 1..Len(sections) :
        /\ ~sections[k].custom
        /\ sections[k].ty \in tys
        /\ sections[k].subsections # <<>>}

\* C23: in the emitted script every SubSection of every Text, Rodata, Data
\* or Bss Section is emitted inside that Section's block, in declaration
\* order, after the default input sections and before the end alignment, as
\* align, start symbol, input-section match (in KEEP when marked keep),
\* align, end symbol and, when a maximum size is set, the assertion
\* end - start <= max.
C23_SubSectionsEmitted ==
    ScriptWritten =>
        \A k \in WithSubSections({"text", "rodata", "data", "bss"}) :
            SubSectionsInBlock(sections[k])

\* The same for the Text, Rodata and Data Sections alone.
SubSectionsOfLoadedSectionsEmitted ==
    ScriptWritten =>
        \A k \in WithSubSections({"text", "rodata", "data"}) :
            SubSectionsInBlock(sections[k])

\* A script whose Text, Rodata or Data Section carries the most SubSections.
LoadedSectionWithSubSections ==
    /\ ScriptWritten
    /\ \E k \in WithSubSections({"text", "rodata", "data"}) :
         Len(sections[k].subsections) = MaxSubSections

(***************************************************************************)
(* The block of a Custom section.                                          *)
(***************************************************************************)
RECURSIVE ReservedUpTo(_, _)
\* The bytes the sentences from..to reserve by advancing the location counter.
ReservedUpTo(from, to) ==
    IF from = 0 \/ to < from THEN 0
    ELSE ReservedUpTo(from, to - 1)
         + (IF sentences[to].k = "AdvanceLocationCounter" THEN sentences[to].n ELSE 0)

\* The bytes the block `.name` reserves, 0 when the script has no such block.
ReservedIn(name) ==
    IF BlockStartOf(name) = 0 THEN 0
    ELSE ReservedUpTo(BlockStartOf(name), BlockEndOf(BlockStartOf(name)))

\* The input-section matches of the block that starts at `from`.
MatchesIn(from) ==
    {i \in from..BlockEndOf(from) : sentences[i].k = "InputSections"}

\* A Custom Section without SubSections has `size` bytes reserved, in a NOLOAD
\* block; one with SubSections has a loadable block of exactly its
\* SubSections, which reserves nothing.
CustomSectionShape(section) ==
    LET from == BlockStartOf(section_entry_name(section.ty))
    IN  IF section.subsections = <<>>
        THEN /\ ReservedIn(section_entry_name(section.ty)) = section.size
             /\ from # 0 => sentences[from].b = "NOLOAD" /\ MatchesIn(from) = {}
        ELSE /\ from # 0
             /\ sentences[from].b = ""
             /\ SubSectionsFrom(from + 2, section.subsections, 1)
             /\ Cardinality(MatchesIn(from)) = Len(section.subsections)
             /\ ReservedIn(section_entry_name(section.ty)) = 0

\* C24: in the emitted script a Custom(name, size) Section without SubSections
\* has exactly size bytes reserved in a NOLOAD block, and one with SubSections
\* has a loadable block that holds exactly those SubSections and reserves no
\* size, for every size, 0 included.
C24_CustomSectionBlock ==
    ScriptWritten =>
        \A k \in 1..Len(sections) :
            sections[k].custom => CustomSectionShape(sections[k])

\* The same for the Custom Sections of a size other than 0.
SizedCustomSectionBlock ==
    ScriptWritten =>
        \A k \in 1..Len(sections) :
            sections[k].custom /\ sections[k].size # 0 => CustomSectionShape(sections[k])

\* A script for a Custom Section of 4 KiB that carries the most SubSections.
SizedCustomSectionWithSubSections ==
    /\ ScriptWritten
    /\ \E k \in 1..Len(sections) :
         /\ sections[k].custom /\ sections[k].size # 0
         /\ Len(sections[k].subsections) = MaxSubSections

(***************************************************************************)
(* The symbols of the emitted script.                                      *)
(***************************************************************************)
\* The sentences that define the symbol `symbol`.
DefinitionsOf(symbol) ==
    {i \in 1..Len(sentences) :
        /\ sentences[i].k \in {"SetToCurrent", "SetRelativeToLocationCounter",
                               "SetToSymbol", "SetToValue"}
        /\ sentences[i].a = symbol}

\* The symbols the script reads in an assertion or in a binding of
\* _sprogram or _eprogram.
ReferencedSymbols ==
    UNION { IF sentences[i].k = "Assert" THEN {sentences[i].a, sentences[i].b}
            ELSE IF sentences[i].k = "SetToSymbol" THEN {sentences[i].b}
            ELSE {} : i \in 1..Len(sentences) }

\* The symbols the boot code and the accessor module read: those of the
\* stack, the bss and the global pointer, and the start and end symbol of
\* every Section.
ReliedOnSymbols ==
    {"_stack_top", "_sstack", "_estack", "_sbss", "_ebss", "_global_pointer"}
    \cup UNION { {section_entry_start_symbol(sections[k].ty),
                  section_entry_end_symbol(sections[k].ty)} : k \in 1..Len(sections) }

\* C25: every symbol that the emitted script references in an assertion or
\* in the program start/end bindings, and every symbol the boot code and the
\* accessor module rely on, is defined exactly once in the emitted script,
\* for every accepted declaration: heap of size 0, Custom section of size 0
\* and stack in Bss included.
C25_SymbolsDefinedOnce ==
    ScriptWritten =>
        \A symbol \in ReferencedSymbols \cup ReliedOnSymbols :
            Cardinality(DefinitionsOf(symbol)) = 1

\* The same for the declarations whose heap and Custom sections are not of
\* size 0.
SymbolsOfSizedSectionsDefinedOnce ==
    (/\ ScriptWritten
     /\ target_config.heap_size # 0
     /\ \A k \in 1..Len(sections) : sections[k].custom => sections[k].size # 0)
    => \A symbol \in ReferencedSymbols \cup ReliedOnSymbols :
           Cardinality(DefinitionsOf(symbol)) = 1

\* A script for such a declaration with a Stack section and the stack in Bss.
SizedSectionsAndStackInBss ==
    /\ ScriptWritten
    /\ target_config.heap_size # 0
    /\ \A k \in 1..Len(sections) : sections[k].custom => sections[k].size # 0
    /\ \E k \in 1..Len(sections) : sections[k].ty = "stack"
    /\ is_stack_in_bss(stack_location)

(***************************************************************************)
(* The address windows of the region table.                                *)
(***************************************************************************)
\* Two memories cover a common address.
Overlap(a, b) == a.base < b.base + b.length /\ b.base < a.base + a.length

\* C28: the memories of every accepted LinkerConfig are pairwise
\* non-overlapping address windows, whether they come from two declared
\* regions or from a region and its sub-regions.
C28_MemoriesDisjoint ==
    Accepted =>
        \A i, j \in 1..Len(memories) : i # j => ~Overlap(memories[i], memories[j])

\* The memories of the sub-regions of one region are pairwise non-overlapping
\* and lie in the region.
SubRegionsDisjoint ==
    Accepted =>
        \A r \in 1..Len(memory_regions) :
            \A i, j \in 1..Len(memory_regions[r].sub_regions) :
                \A a, b \in 1..Len(memories) :
                    (/\ memories[a].name = memory_regions[r].sub_regions[i].name
                     /\ memories[b].name = memory_regions[r].sub_regions[j].name)
                    => /\ i # j => ~Overlap(memories[a], memories[b])
                       /\ memory_regions[r].base <= memories[a].base
                       /\ memories[a].base + memories[a].length
                            <= region_end(memory_regions[r])

\* An accepted declaration of two declared regions that cover a common address.
DeclaredRegionsOverlap ==
    /\ Accepted
    /\ \E r, q \in 1..Len(memory_regions) :
         r # q /\ Overlap(memory_regions[r], memory_regions[q])

\* An accepted declaration of one region that has two sub-regions.
RegionWithSubRegions ==
    /\ Accepted
    /\ Len(memory_regions) = 1
    /\ Len(memory_regions[1].sub_regions) = 2

(***************************************************************************)
(* rt.rs: the calls the generator functions make on the AsmBuilder. A      *)
(* register operand is a GeneralRegister, the local variable that holds a  *)
(* get_free_reg result, or a NamedReg; a label operand is a label of the   *)
(* label map, a symbol defined outside boot.S, or the local variable that  *)
(* holds a next_label result. Of the sentences only the instructions and   *)
(* the labels are kept (no comment, alignment, section or data directive). *)
(***************************************************************************)
NoTarget == [k |-> "none", l |-> ""]

\* get_label_from_map(ty): a label that add_labels put in the label map.
named(l) == [k |-> "named", l |-> l]

\* A symbol of the linker script or of the Rust code.
symbol(l) == [k |-> "symbol", l |-> l]

\* forward_label(label), backward_label(label)
forward_label(l) == [k |-> "fwd", l |-> l]
backward_label(l) == [k |-> "bwd", l |-> l]

\* A call that is no sentence: get_free_reg, release_reg, next_label, ...
Call(call, v, regs) ==
    [call |-> call, v |-> v, regs |-> regs,
     op |-> "", rd |-> "", rs |-> <<>>, slot |-> "", target |-> NoTarget]

\* A call that adds one instruction: its destination register, its source
\* registers, the TpBlock member or trap frame slot it addresses, its label.
Sent(op, rd, rs, slot, target) ==
    [call |-> "add_sentence", v |-> "", regs |-> <<>>,
     op |-> op, rd |-> rd, rs |-> rs, slot |-> slot, target |-> target]

\* asm.label(&label, ..) on a local label, and asm.label, global_function or
\* global_entrypoint on a label of the label map or a function name.
label_local(l) == Sent("label", "", <<>>, "", [k |-> "local", l |-> l])
label_named(l) == Sent("label", "", <<>>, "", [k |-> "def", l |-> l])

let_get_free_reg(v) == Call("get_free_reg", v, <<>>)
release_reg_of(v) == Call("release_reg", v, <<>>)
let_next_label(v) == Call("next_label", v, <<>>)

define_hart_idx_variable_calls == << label_named("boot_idx") >>

define_bss_init_done_calls(rt) ==
    IF rt.skip_bss_clearing THEN <<>> ELSE << label_named("bss_init_done") >>

define_thread_pointer_block_calls == << label_named("tp_block") >>

call_custom_reset_entrypoint_calls ==
    << let_get_free_reg("rs"),
       Sent("la", "rs", <<>>, "", symbol("CustomReset")),
       Sent("jalr", "Ra", <<"rs">>, "", NoTarget),
       release_reg_of("rs") >>

hart_count_error_handling_calls ==
    << let_get_free_reg("max_hart_count"),
       let_next_label("boot_label"),
       let_get_free_reg("park_addr_reg"),
       Sent("li", "max_hart_count", <<>>, "", NoTarget),
       Sent("bltu", "", <<"BootId", "max_hart_count">>, "", forward_label("boot_label")),
       Sent("la", "park_addr_reg", <<>>, "", named("_park_hart")),
       Sent("jr", "", <<"park_addr_reg">>, "", NoTarget),
       label_local("boot_label"),
       release_reg_of("max_hart_count"),
       release_reg_of("park_addr_reg") >>

determine_boot_id_calls(rt) ==
    IF is_multi_hart(rt.target_config)
    THEN << Sent("la", "BootId", <<>>, "", named("boot_idx")),
            let_get_free_reg("inc"),
            Sent("li", "inc", <<>>, "", NoTarget),
            Sent("amoadd", "BootId", <<"BootId", "inc">>, "", NoTarget),
            release_reg_of("inc") >>
         \o hart_count_error_handling_calls
    ELSE << Sent("mov", "BootId", <<"zero">>, "", NoTarget) >>

read_hart_id_calls(rt) ==
    << IF rt.target_config.rv_mode = "MMode"
       THEN Sent("csrr", "HartId", <<>>, "Mhartid", NoTarget)
       ELSE Sent("mov", "HartId", <<"A0">>, "", NoTarget) >>

init_stack_pointer_using_boot_id_calls ==
    << let_get_free_reg("sub"),
       Sent("li", "sub", <<>>, "", NoTarget),
       Sent("mul", "sub", <<"sub", "BootId">>, "", NoTarget),
       Sent("la", "Sp", <<>>, "", symbol("_stack_top")),
       Sent("sub", "Sp", <<"Sp", "sub">>, "", NoTarget),
       release_reg_of("sub") >>

zero_trap_csrs_calls(rt) ==
    << Sent("csrw", "", <<"zero">>, "Ie", NoTarget) >>
    \o (IF rt.target_config.rv_mode = "MMode"
        THEN << Sent("csrw", "", <<"zero">>, "Mideleg", NoTarget),
                Sent("csrw", "", <<"zero">>, "Medeleg", NoTarget) >>
        ELSE <<>>)

write_epc_calls ==
    << let_get_free_reg("reg"),
       Sent("la", "reg", <<>>, "", named("_park_hart")),
       Sent("csrw", "", <<"reg">>, "Epc", NoTarget),
       release_reg_of("reg") >>

write_status_calls ==
    << let_get_free_reg("reg"),
       Sent("li", "reg", <<>>, "", NoTarget),
       Sent("csrc", "", <<"reg">>, "Status", NoTarget),
       Sent("li", "reg", <<>>, "", NoTarget),
       Sent("csrs", "", <<"reg">>, "Status", NoTarget),
       release_reg_of("reg") >>

write_tvec_calls ==
    << let_get_free_reg("reg"),
       Sent("la", "reg", <<>>, "", named("handle_trap")),
       Sent("csrw", "", <<"reg">>, "Tvec", NoTarget),
       release_reg_of("reg") >>

write_scratch_calls ==
    << Sent("la", "Tp", <<>>, "", named("tp_block")),
       let_get_free_reg("reg"),
       Sent("li", "reg", <<>>, "", NoTarget),
       Sent("mul", "reg", <<"reg", "BootId">>, "", NoTarget),
       Sent("add", "Tp", <<"Tp", "reg">>, "", NoTarget),
       release_reg_of("reg"),
       Sent("store", "", <<"BootId", "Tp">>, "BootId", NoTarget),
       Sent("store", "", <<"HartId", "Tp">>, "HartId", NoTarget),
       Sent("csrw", "", <<"Tp">>, "Scratch", NoTarget) >>

write_sptp_calls ==
    << Sent("store", "", <<"Sp", "Tp">>, "InterruptedModeStack", NoTarget),
       Sent("store", "", <<"Sp", "Tp">>, "CurrentModeStack", NoTarget) >>

\* clear_rt_flags_in_tpblock
write_init_rtflags_calls == << Sent("store", "", <<"zero", "Tp">>, "RtFlags", NoTarget) >>

init_fp_calls(rt) ==
    << let_get_free_reg("status_reg"),
       let_get_free_reg("mask_reg"),
       Sent("csrr", "status_reg", <<>>, "Status", NoTarget),
       Sent("li", "mask_reg", <<>>, "", NoTarget),
       Sent("and", "status_reg", <<"status_reg", "mask_reg">>, "", NoTarget),
       Sent("li", "mask_reg", <<>>, "", NoTarget),
       Sent("or", "status_reg", <<"status_reg", "mask_reg">>, "", NoTarget),
       Sent("csrw", "", <<"status_reg">>, "Status", NoTarget),
       Sent("csrw", "", <<"zero">>, "Fcsr", NoTarget) >>
    \o [i \in 1..Len(rt.trap_frame.floating_point_registers) |->
          Sent("fmv", "", <<"zero">>, rt.trap_frame.floating_point_registers[i], NoTarget)]
    \o << release_reg_of("status_reg"), release_reg_of("mask_reg") >>

common_hart_init_calls(rt) ==
    (IF rt.target_config.custom_reset_config
     THEN call_custom_reset_entrypoint_calls ELSE <<>>)
    \o determine_boot_id_calls(rt)
    \o read_hart_id_calls(rt)
    \o init_stack_pointer_using_boot_id_calls
    \o zero_trap_csrs_calls(rt)
    \o write_epc_calls
    \o write_status_calls
    \o write_tvec_calls
    \o write_scratch_calls
    \o write_sptp_calls
    \o write_init_rtflags_calls
    \o (IF rt.floating_point_support THEN init_fp_calls(rt) ELSE <<>>)

handle_nonboot_harts_calls ==
    << let_next_label("boot_hart_label"),
       let_get_free_reg("nonboot_addr_reg"),
       Sent("beqz", "", <<"BootId">>, "", forward_label("boot_hart_label")),
       Sent("la", "nonboot_addr_reg", <<>>, "", named("_secondary_start")),
       Sent("jr", "", <<"nonboot_addr_reg">>, "", NoTarget),
       label_local("boot_hart_label"),
       release_reg_of("nonboot_addr_reg") >>

zero_bss_calls(rt) ==
    IF rt.skip_bss_clearing THEN <<>>
    ELSE << let_get_free_reg("start_reg"),
            let_get_free_reg("end_reg"),
            Sent("la", "start_reg", <<>>, "", symbol("_sbss")),
            Sent("la", "end_reg", <<>>, "", symbol("_ebss")),
            let_next_label("loop_label"),
            let_next_label("exit_label"),
            Sent("bgeu", "", <<"start_reg", "end_reg">>, "", forward_label("exit_label")),
            label_local("loop_label"),
            Sent("store", "", <<"zero", "start_reg">>, "", NoTarget),
            Sent("addi", "start_reg", <<"start_reg">>, "", NoTarget),
            Sent("bltu", "", <<"start_reg", "end_reg">>, "", backward_label("loop_label")),
            label_local("exit_label"),
            release_reg_of("start_reg"),
            release_reg_of("end_reg") >>
         \o (IF is_multi_hart(rt.target_config)
             THEN << let_get_free_reg("addr_reg"),
                     let_get_free_reg("val_reg"),
                     Sent("la", "addr_reg", <<>>, "", named("bss_init_done")),
                     Sent("li", "val_reg", <<>>, "", NoTarget),
                     Sent("store", "", <<"val_reg", "addr_reg">>, "", NoTarget),
                     release_reg_of("addr_reg"),
                     release_reg_of("val_reg") >>
             ELSE <<>>)

wait_for_bss_init_done_calls(rt) ==
    IF rt.skip_bss_clearing THEN <<>>
    ELSE << let_get_free_reg("addr_reg"),
            let_get_free_reg("val_reg"),
            let_next_label("loopback_label"),
            Sent("la", "addr_reg", <<>>, "", named("bss_init_done")),
            label_local("loopback_label"),
            Sent("load", "val_reg", <<"addr_reg">>, "", NoTarget),
            Sent("beqz", "", <<"val_reg">>, "", backward_label("loopback_label")),
            release_reg_of("addr_reg"),
            release_reg_of("val_reg") >>

write_entrypoint_in_tp_calls(entrypoint) ==
    << let_get_free_reg("reg"),
       Sent("la", "reg", <<>>, "", symbol(entrypoint)),
       Sent("store", "", <<"reg", "Tp">>, "RustEntrypoint", NoTarget),
       release_reg_of("reg") >>

jump_to_rust_entrypoint_calls(rt, entrypoint) ==
    write_entrypoint_in_tp_calls(entrypoint)
    \o << Sent("j", "", <<>>, "",
               named(IF rt.stack_overflow_detection THEN "protect_stack"
                     ELSE "jump_to_rust")) >>

\* text_reset_section, common_hart_init, handle_nonboot_harts, zero_bss,
\* boothart_call_rust_entrypoint, nonboot_hart_call_rust_entrypoint.
build_multi_hart_start_calls(rt) ==
    << label_named("_start") >>
    \o common_hart_init_calls(rt)
    \o handle_nonboot_harts_calls
    \o zero_bss_calls(rt)
    \o jump_to_rust_entrypoint_calls(rt, "BootHart")
    \o << label_named("_secondary_start") >>
    \o wait_for_bss_init_done_calls(rt)
    \o jump_to_rust_entrypoint_calls(rt, "NonBootHart")

build_boot_hart_start_calls(rt) ==
    << label_named("_start") >>
    \o common_hart_init_calls(rt)
    \o zero_bss_calls(rt)
    \o jump_to_rust_entrypoint_calls(rt, "BootHart")

build_secondary_hart_start_calls(rt) ==
    << label_named("_secondary_start") >>
    \o common_hart_init_calls(rt)
    \o wait_for_bss_init_done_calls(rt)
    \o jump_to_rust_entrypoint_calls(rt, "NonBootHart")

protect_stack_calls ==
    << let_get_free_reg("stack_bottom"),
       Sent("mov", "stack_bottom", <<"Sp">>, "", NoTarget),
       let_get_free_reg("sub"),
       Sent("li", "sub", <<>>, "", NoTarget),
       Sent("sub", "stack_bottom", <<"stack_bottom", "sub">>, "", NoTarget),
       release_reg_of("sub"),
       let_get_free_reg("sentry_value"),
       Sent("li", "sentry_value", <<>>, "", NoTarget),
       Sent("store", "", <<"sentry_value", "stack_bottom">>, "", NoTarget),
       release_reg_of("sentry_value"),
       release_reg_of("stack_bottom") >>

protect_stack_section_calls ==
    << label_named("protect_stack") >>
    \o protect_stack_calls
    \o << Sent("j", "", <<>>, "", named("jump_to_rust")) >>

park_hart_calls ==
    << label_named("_park_hart"),
       Sent("wfi", "", <<>>, "", NoTarget),
       Sent("j", "", <<>>, "", named("_park_hart")) >>

get_stack_bottom_calls ==
    << let_get_free_reg("sub"),
       Sent("li", "sub", <<>>, "", NoTarget),
       let_get_free_reg("offset"),
       let_get_free_reg("boot_id_reg"),
       Sent("load", "boot_id_reg", <<"Tp">>, "BootId", NoTarget),
       Sent("addi", "offset", <<"boot_id_reg">>, "", NoTarget),
       Sent("mul", "sub", <<"sub", "offset">>, "", NoTarget),
       release_reg_of("boot_id_reg"),
       release_reg_of("offset"),
       Sent("la", "stack_bottom_reg", <<>>, "", symbol("_stack_top")),
       Sent("sub", "stack_bottom_reg", <<"stack_bottom_reg", "sub">>, "", NoTarget),
       release_reg_of("sub") >>

check_stack_calls ==
    << let_get_free_reg("stack_bottom_reg") >>
    \o get_stack_bottom_calls
    \o << let_get_free_reg("value_reg"),
          Sent("load", "value_reg", <<"stack_bottom_reg">>, "", NoTarget),
          let_get_free_reg("sentry_value"),
          Sent("li", "sentry_value", <<>>, "", NoTarget),
          let_next_label("next_label"),
          Sent("beq", "", <<"value_reg", "sentry_value">>, "", forward_label("next_label")),
          let_get_free_reg("rs"),
          Sent("la", "rs", <<>>, "", symbol("StackOverflow")),
          Sent("la", "Ra", <<>>, "", named("_park_hart")),
          Sent("mov", "A0", <<"sentry_value">>, "", NoTarget),
          Sent("mov", "A1", <<"value_reg">>, "", NoTarget),
          Sent("jr", "", <<"rs">>, "", NoTarget),
          release_reg_of("rs"),
          label_local("next_label"),
          release_reg_of("stack_bottom_reg"),
          release_reg_of("value_reg"),
          release_reg_of("sentry_value") >>

\* load_rt_flags_from_trapframe(reg)
load_rt_flags_from_trapframe(reg) == Sent("load", reg, <<"Sp">>, "RtFlags", NoTarget)

restore_trap_frame_calls(rt) ==
    << label_named("restore_trap_frame") >>
    \o (IF rt.stack_overflow_detection THEN check_stack_calls ELSE <<>>)
    \o << let_get_free_reg("pp"),
          let_get_free_reg("status"),
          let_next_label("restore_label"),
          Sent("load", "status", <<"Sp">>, "Status", NoTarget),
          Sent("li", "pp", <<>>, "", NoTarget),
          Sent("and", "status", <<"status", "pp">>, "", NoTarget),
          Sent("beq", "", <<"status", "pp">>, "", forward_label("restore_label")),
          release_reg_of("pp"),
          release_reg_of("status"),
          let_get_free_reg("temp_reg"),
          Sent("addi", "temp_reg", <<"Sp">>, "", NoTarget),
          Sent("store", "", <<"temp_reg", "Tp">>, "CurrentModeStack", NoTarget),
          Sent("csrw", "", <<"Tp">>, "Scratch", NoTarget),
          label_local("restore_label"),
          let_next_label("restore_csr_label"),
          load_rt_flags_from_trapframe("temp_reg"),
          Sent("andi", "temp_reg", <<"temp_reg">>, "", NoTarget),
          Sent("beqz", "", <<"temp_reg">>, "", forward_label("restore_csr_label")),
          Sent("load", "temp_reg", <<"Sp">>, "InterruptedTrapFrameAddr", NoTarget),
          Sent("store", "", <<"temp_reg", "Tp">>, "TrapCtx", NoTarget) >>
    \o (IF rt.sfence_on_trapframe_restore_feature
        THEN << load_rt_flags_from_trapframe("temp_reg"),
                let_next_label("no_sfence"),
                Sent("andi", "temp_reg", <<"temp_reg">>, "", NoTarget),
                Sent("beqz", "", <<"temp_reg">>, "", forward_label("no_sfence")),
                Sent("sfence", "", <<"zero", "zero">>, "", NoTarget),
                label_local("no_sfence") >>
        ELSE <<>>)
    \o (IF rt.floating_point_support
        THEN << let_next_label("fs_clean"),
                load_rt_flags_from_trapframe("temp_reg"),
                Sent("andi", "temp_reg", <<"temp_reg">>, "", NoTarget),
                Sent("beqz", "", <<"temp_reg">>, "", forward_label("fs_clean")) >>
             \o [i \in 1..Len(rt.trap_frame.floating_point_registers) |->
                   Sent("fload", "", <<"Sp">>, rt.trap_frame.floating_point_registers[i], NoTarget)]
             \o << load_rt_flags_from_trapframe("temp_reg"),
                   Sent("andi", "temp_reg", <<"temp_reg">>, "", NoTarget),
                   Sent("store", "", <<"temp_reg", "Sp">>, "RtFlags", NoTarget),
                   label_local("fs_clean") >>
        ELSE <<>>)
    \o << label_local("restore_csr_label") >>
    \o Flatten([i \in 1..Len(rt.trap_frame.csrs) |->
                  IF restore_from_trap_frame(rt.trap_frame.csrs[i])
                  THEN << Sent("load", "temp_reg", <<"Sp">>, rt.trap_frame.csrs[i], NoTarget),
                          Sent("csrw", "", <<"temp_reg">>, rt.trap_frame.csrs[i], NoTarget) >>
                  ELSE <<>>])
    \o << release_reg_of("temp_reg") >>
    \o Flatten([i \in 1..Len(rt.trap_frame.general_regs) |->
                  IF rt.trap_frame.general_regs[i] = "Sp" THEN <<>>
                  ELSE << Sent("load", rt.trap_frame.general_regs[i], <<"Sp">>,
                               rt.trap_frame.general_regs[i], NoTarget) >>
                       \o (IF rt.supports_atomic_extension /\ i = 1
                           THEN << Sent("sc", "zero",
                                        <<rt.trap_frame.general_regs[i], "Sp">>, "", NoTarget) >>
                           ELSE <<>>)])
    \o << Sent("load", "Sp", <<"Sp">>, "Sp", NoTarget),
          Sent("mode_ret", "", <<>>, "", NoTarget) >>

\* A handle_trap that hands no register to assign_free_reg_pool.
handle_trap_no_free_regs == <<>>

\* The registers handle_trap hands to assign_free_reg_pool once sp is
\* stored in the TpBlock.
handle_trap_free_regs == <<"Sp">>

handle_trap_calls ==
    << let_next_label("not_nested_label"),
       let_next_label("jump_ahead_label"),
       label_named("handle_trap"),
       Sent("csrrw", "Tp", <<"Tp">>, "Scratch", NoTarget),
       Sent("bnez", "", <<"Tp">>, "", forward_label("not_nested_label")),
       Sent("csrr", "Tp", <<>>, "Scratch", NoTarget),
       Sent("store", "", <<"Sp", "Tp">>, "CurrentModeStack", NoTarget),
       Sent("addi", "Sp", <<"zero">>, "", NoTarget),
       Sent("store", "", <<"Sp", "Tp">>, "RtFlags", NoTarget),
       Sent("load", "Sp", <<"Tp">>, "CurrentModeStack", NoTarget),
       Sent("j", "", <<>>, "", forward_label("jump_ahead_label")),
       label_local("not_nested_label"),
       Sent("store", "", <<"zero", "Tp">>, "RtFlags", NoTarget),
       label_local("jump_ahead_label"),
       Sent("store", "", <<"Sp", "Tp">>, "InterruptedModeStack", NoTarget),
       Call("assign_free_reg_pool", "", handle_trap_free_regs),
       let_get_free_reg("reg"),
       Sent("csrr", "reg", <<>>, "Scratch", NoTarget),
       Sent("store", "", <<"reg", "Tp">>, "InterruptedModeTp", NoTarget),
       release_reg_of("reg") >>
    \o write_entrypoint_in_tp_calls("Trap")
    \o << Call("drain_free_reg_pool", "", <<>>),
          Sent("load", "Sp", <<"Tp">>, "CurrentModeStack", NoTarget),
          Sent("j", "", <<>>, "", named("jump_to_rust")) >>

goto_rust_entrypoint_calls ==
    << label_named("jump_to_rust"),
       Sent("store", "", <<"Ra", "Tp">>, "ReturnAddr", NoTarget),
       Sent("jal", "Ra", <<>>, "", named("create_trap_frame")),
       Call("init_default_free_reg_pool", "", <<>>),
       Sent("la", "Gp", <<>>, "", symbol("_global_pointer")),
       Sent("store", "", <<"Sp", "Tp">>, "TrapCtx", NoTarget),
       let_get_free_reg("reg"),
       Sent("load", "reg", <<"Tp">>, "RustEntrypoint", NoTarget),
       Sent("la", "Ra", <<>>, "", named("restore_trap_frame")),
       Sent("jr", "", <<"reg">>, "", NoTarget),
       release_reg_of("reg") >>

\* generate_asm_id(asm_fn_name, tp_block_offset)
generate_asm_id_calls(asm_fn_name, member) ==
    << label_named(asm_fn_name),
       Sent("load", "A0", <<"Tp">>, member, NoTarget),
       Sent("jr", "", <<"Ra">>, "", NoTarget) >>

switch_to_calls ==
    << Call("drain_free_reg_pool", "", <<>>),
       label_named("__switch_to"),
       Sent("store", "", <<"Sp", "Tp">>, "InterruptedModeStack", NoTarget),
       Sent("store", "", <<"Tp", "Tp">>, "InterruptedModeTp", NoTarget),
       Sent("csrw", "", <<"Ra">>, "Epc", NoTarget),
       Sent("store", "", <<"Ra", "Tp">>, "ReturnAddr", NoTarget),
       Sent("addi", "Sp", <<"zero">>, "", NoTarget),
       Sent("store", "", <<"Sp", "Tp">>, "RtFlags", NoTarget),
       Sent("load", "Sp", <<"Tp">>, "InterruptedModeStack", NoTarget),
       Sent("jal", "Ra", <<>>, "", named("create_trap_frame")),
       Call("init_default_free_reg_pool", "", <<>>),
       let_get_free_reg("trap_reg"),
       Sent("load", "trap_reg", <<"Tp">>, "CurrContext", NoTarget),
       Sent("store", "", <<"Sp", "trap_reg">>, "PrivCtx", NoTarget),
       Sent("store", "", <<"A0", "Tp">>, "CurrContext", NoTarget),
       Sent("store", "", <<"zero", "Tp">>, "CurrentModeStack", NoTarget),
       Sent("load", "Sp", <<"A0">>, "PrivCtx", NoTarget),
       Sent("store", "", <<"zero", "A0">>, "PrivCtx", NoTarget),
       Sent("store", "", <<"Tp", "Sp">>, "Tp", NoTarget),
       Sent("j", "", <<>>, "", named("restore_trap_frame")) >>

\* asm_my_ids, asm_my_trap_frame_addr, asm_my_tp_block_addr,
\* asm_tp_block_base, asm_get_rest_tf_label, switch_to.
write_asm_helpers_calls ==
    generate_asm_id_calls("__my_boot_id", "BootId")
    \o generate_asm_id_calls("__my_hart_id", "HartId")
    \o generate_asm_id_calls("__my_trap_frame_addr", "TrapCtx")
    \o << label_named("__my_tpblock_addr"),
          Sent("mov", "A0", <<"Tp">>, "", NoTarget),
          Sent("jr", "", <<"Ra">>, "", NoTarget),
          label_named("__tpblock_base"),
          Sent("la", "A0", <<>>, "", named("tp_block")),
          Sent("jr", "", <<"Ra">>, "", NoTarget),
          label_named("__get_restore_tf_label"),
          Sent("la", "A0", <<>>, "", named("restore_trap_frame")),
          Sent("jr", "", <<"Ra">>, "", NoTarget) >>
    \o switch_to_calls

create_trap_frame_calls(rt) ==
    << label_named("create_trap_frame"),
       Sent("addi", "Sp", <<"Sp">>, "", NoTarget),
       Sent("andi", "Sp", <<"Sp">>, "", NoTarget) >>
    \o Flatten([i \in 1..Len(rt.trap_frame.general_regs) |->
                  IF rt.trap_frame.general_regs[i] \notin {"Sp", "Tp", "Ra"}
                  THEN << Sent("store", "", <<rt.trap_frame.general_regs[i], "Sp">>,
                               rt.trap_frame.general_regs[i], NoTarget) >>
                  ELSE <<>>])
    \o << Call("init_default_free_reg_pool", "", <<>>) >>
    \o (IF rt.floating_point_support
        THEN << let_next_label("fs_clean"),
                let_get_free_reg("status_reg"),
                let_get_free_reg("temp_reg"),
                let_get_free_reg("mask_reg"),
                Sent("csrr", "status_reg", <<>>, "Status", NoTarget),
                Sent("li", "mask_reg", <<>>, "", NoTarget),
                Sent("and", "temp_reg", <<"status_reg", "mask_reg">>, "", NoTarget),
                Sent("bne", "", <<"temp_reg", "mask_reg">>, "", forward_label("fs_clean")) >>
             \o [i \in 1..Len(rt.trap_frame.floating_point_registers) |->
                   Sent("fstore", "", <<"Sp">>, rt.trap_frame.floating_point_registers[i], NoTarget)]
             \o << Sent("xori", "mask_reg", <<"mask_reg">>, "", NoTarget),
                   Sent("and", "temp_reg", <<"mask_reg", "status_reg">>, "", NoTarget),
                   Sent("li", "mask_reg", <<>>, "", NoTarget),
                   Sent("or", "status_reg", <<"temp_reg", "mask_reg">>, "", NoTarget),
                   Sent("csrw", "", <<"status_reg">>, "Status", NoTarget),
                   release_reg_of("status_reg"),
                   Sent("load", "temp_reg", <<"Tp">>, "RtFlags", NoTarget),
                   Sent("li", "mask_reg", <<>>, "", NoTarget),
                   Sent("or", "temp_reg", <<"temp_reg", "mask_reg">>, "", NoTarget),
                   Sent("store", "", <<"temp_reg", "Tp">>, "RtFlags", NoTarget),
                   release_reg_of("mask_reg"),
                   release_reg_of("temp_reg"),
                   label_local("fs_clean") >>
        ELSE <<>>)
    \o << let_get_free_reg("temp_reg"),
          Sent("load", "temp_reg", <<"Tp">>, "InterruptedModeStack", NoTarget),
          Sent("store", "", <<"temp_reg", "Sp">>, "Sp", NoTarget),
          Sent("load", "temp_reg", <<"Tp">>, "ReturnAddr", NoTarget),
          Sent("store", "", <<"temp_reg", "Sp">>, "Ra", NoTarget),
          Sent("load", "temp_reg", <<"Tp">>, "InterruptedModeTp", NoTarget),
          Sent("store", "", <<"temp_reg", "Sp">>, "Tp", NoTarget),
          Sent("csrw", "", <<"zero">>, "Scratch", NoTarget) >>
    \o Flatten([i \in 1..Len(rt.trap_frame.csrs) |->
                  << Sent("csrr", "temp_reg", <<>>, rt.trap_frame.csrs[i], NoTarget),
                     Sent("store", "", <<"temp_reg", "Sp">>, rt.trap_frame.csrs[i], NoTarget) >>])
    \o << Sent("load", "temp_reg", <<"Tp">>, "RtFlags", NoTarget),
          Sent("store", "", <<"temp_reg", "Sp">>, "RtFlags", NoTarget),
          Sent("store", "", <<"zero", "Tp">>, "RtFlags", NoTarget),
          Sent("load", "temp_reg", <<"Tp">>, "TrapCtx", NoTarget),
          Sent("store", "", <<"temp_reg", "Sp">>, "InterruptedTrapFrameAddr", NoTarget),
          release_reg_of("temp_reg"),
          Sent("ret", "", <<"Ra">>, "", NoTarget) >>

\* write_boot_s_file, from add_labels to create_trap_frame.
write_boot_s_file_calls(rt) ==
    << Call("init_default_free_reg_pool", "", <<>>),
       Call("allocate_reg_for", "BootId", <<>>),
       Call("allocate_reg_for", "HartId", <<>>) >>
    \o (IF is_multi_hart(rt.target_config)
        THEN define_hart_idx_variable_calls \o define_bss_init_done_calls(rt)
        ELSE <<>>)
    \o define_thread_pointer_block_calls
    \o (IF multihart_reset_handling_required(rt.target_config)
        THEN build_multi_hart_start_calls(rt)
        ELSE build_boot_hart_start_calls(rt)
             \o (IF is_multi_hart(rt.target_config)
                 THEN build_secondary_hart_start_calls(rt) ELSE <<>>))
    \o << Call("release_id_reg", "BootId", <<>>),
          Call("release_id_reg", "HartId", <<>>) >>
    \o (IF rt.stack_overflow_detection THEN protect_stack_section_calls ELSE <<>>)
    \o park_hart_calls
    \o restore_trap_frame_calls(rt)
    \o handle_trap_calls
    \o goto_rust_entrypoint_calls
    \o write_asm_helpers_calls
    \o create_trap_frame_calls(rt)

(***************************************************************************)
(* rt.rs: the AsmBuilder while write_boot_s_file makes these calls. Beside *)
(* the fields of struct AsmBuilder it keeps what the Rust locals hold (the *)
(* results of get_free_reg and next_label) and a record of the registers   *)
(* handed out: unreleased are those no release_reg was called for, live    *)
(* those of them handed out since the pool was last drained.               *)
(***************************************************************************)
NamedRegs == {"BootId", "HartId"}

\* AsmBuilder::new and the calls write_boot_s_file is about to make.
AsmBuilder_calling(rt) ==
    [rt_config |-> rt,
     todo |-> write_boot_s_file_calls(rt),
     sentences |-> <<>>,
     free_general_regs |-> <<>>,
     named_regs |-> << >>,
     next_label |-> 1,
     locals |-> << >>,
     labels |-> << >>,
     unreleased |-> {},
     live |-> {},
     frame_called |-> FALSE,
     panicked |-> ""]

\* The registers init_default_free_reg_pool assigns.
default_free_regs == <<"T0", "T1", "T2", "T3", "T4", "T5", "T6">>

\* AsmBuilder::assign_free_reg_pool: extend_from_slice
assign_free_reg_pool(a, regs) ==
    [a EXCEPT !.free_general_regs = @ \o regs]

\* AsmBuilder::drain_free_reg_pool: truncate(0)
drain_free_reg_pool(a) ==
    [a EXCEPT !.free_general_regs = <<>>, !.live = {}]

\* An init_default_free_reg_pool that assigns without draining first.
init_default_free_reg_pool_undrained(a) ==
    assign_free_reg_pool(a, default_free_regs)

\* AsmBuilder::init_default_free_reg_pool
init_default_free_reg_pool(a) ==
    assign_free_reg_pool(drain_free_reg_pool(a), default_free_regs)

\* What pop() returns in get_free_reg.
free_reg(a) == a.free_general_regs[Len(a.free_general_regs)]

\* AsmBuilder::get_free_reg
get_free_reg(a) ==
    IF a.free_general_regs = <<>>
    THEN [a EXCEPT !.panicked = "out of free general registers!"]
    ELSE [a EXCEPT !.free_general_regs = SubSeq(@, 1, Len(@) - 1),
                   !.unreleased = @ \cup {free_reg(a)},
                   !.live = @ \cup {free_reg(a)},
                   !.frame_called = FALSE]

\* AsmBuilder::release_reg
release_reg(a, reg) ==
    [a EXCEPT !.free_general_regs = Append(@, reg),
              !.unreleased = @ \ {reg},
              !.live = @ \ {reg}]

\* AsmBuilder::add_named_reg
add_named_reg(a, name, reg) ==
    [a EXCEPT !.named_regs = (name :> reg) @@ @]

\* AsmBuilder::remove_named_reg
remove_named_reg(a, name) ==
    [a EXCEPT !.named_regs = [n \in (DOMAIN @) \ {name} |-> @[n]]]

\* AsmBuilder::next_label: the label it returns, format!("{label:#}")
label_of(a) == ToString(a.next_label)

\* A next_label that does not advance the counter.
next_label_stuck(a) == a

\* AsmBuilder::next_label: the builder after it
next_label(a) == [a EXCEPT !.next_label = @ + 1]

\* The GeneralRegister an operand stands for: a local of the generator
\* function, get_named_reg(name), which unwraps, or the register itself.
reg_of(a, r) ==
    IF r \in DOMAIN a.locals THEN a.locals[r]
    ELSE IF r \in NamedRegs
    THEN (IF r \in DOMAIN a.named_regs THEN a.named_regs[r] ELSE "None")
    ELSE r

\* The label text of an operand: a local label, forward_label(label) and
\* backward_label(label) keep the number and the direction.
target_of(a, t) ==
    IF t.k \in {"fwd", "bwd"} THEN [k |-> t.k, l |-> a.labels[t.l]]
    ELSE IF t.k = "local" THEN [k |-> "ndef", l |-> a.labels[t.l]]
    ELSE t

\* The AsmSentence an add_sentence call pushes.
sentence_of(a, c) ==
    [op |-> c.op,
     rd |-> reg_of(a, c.rd),
     rs |-> [i \in 1..Len(c.rs) |-> reg_of(a, c.rs[i])],
     slot |-> c.slot,
     target |-> target_of(a, c.target)]

\* The operands of the call c.
operands(c) == {c.rd} \cup {c.rs[i] : i \in 1..Len(c.rs)}

RECURSIVE sentences_ahead(_, _)
\* The number of add_sentence calls from todo[i] up to the next call that
\* is none.
sentences_ahead(todo, i) ==
    IF i > Len(todo) \/ todo[i].call # "add_sentence" THEN 0
    ELSE 1 + sentences_ahead(todo, i + 1)

\* AsmBuilder::add_sentence for each of the next n calls.
add_sentence_calls(a, n) ==
    [a EXCEPT
       !.sentences = @ \o [i \in 1..n |-> sentence_of(a, a.todo[i])],
       !.frame_called =
           IF \E i \in 1..n : /\ a.todo[i].op = "jal"
                              /\ a.todo[i].target = named("create_trap_frame")
           THEN TRUE ELSE @,
       !.panicked =
           IF \E i \in 1..n : \E r \in operands(a.todo[i]) :
                 r \in NamedRegs \ DOMAIN a.named_regs
           THEN "called Option::unwrap() on a None value" ELSE @,
       !.todo = SubSeq(@, n + 1, Len(@))]

\* The call write_boot_s_file makes next.
Calling(call) ==
    /\ asm.panicked = ""
    /\ asm.todo # <<>>
    /\ asm.todo[1].call = call

\* The builder once the call is made.
Called(a) ==
    /\ asm' = (IF a.panicked = "" THEN [a EXCEPT !.todo = Tail(@)] ELSE a)
    /\ UNCHANGED <<pc, linker_vars, rt_vars, harts, ram>>

\* let v = asm.get_free_reg();
GetFreeReg ==
    /\ Calling("get_free_reg")
    /\ Called([get_free_reg(asm) EXCEPT
                 !.locals = IF asm.free_general_regs = <<>> THEN @
                            ELSE (asm.todo[1].v :> free_reg(asm)) @@ @])

\* asm.release_reg(v);
ReleaseReg ==
    /\ Calling("release_reg")
    /\ Called(release_reg(asm, asm.locals[asm.todo[1].v]))

\* allocate_reg_for_boot_id, allocate_reg_for_hart_id
AllocateRegForId ==
    /\ Calling("allocate_reg_for")
    /\ Called(IF asm.free_general_regs = <<>> THEN get_free_reg(asm)
              ELSE add_named_reg(get_free_reg(asm), asm.todo[1].v, free_reg(asm)))

\* release_boot_id_reg, release_hart_id_reg
ReleaseIdReg ==
    /\ Calling("release_id_reg")
    /\ Called(IF asm.todo[1].v \in DOMAIN asm.named_regs
              THEN remove_named_reg(
                       release_reg(asm, asm.named_regs[asm.todo[1].v]),
                       asm.todo[1].v)
              ELSE [asm EXCEPT !.panicked = "called Option::unwrap() on a None value"])

InitDefaultFreeRegPool ==
    /\ Calling("init_default_free_reg_pool")
    /\ Called(init_default_free_reg_pool(asm))

DrainFreeRegPool ==
    /\ Calling("drain_free_reg_pool")
    /\ Called(drain_free_reg_pool(asm))

AssignFreeRegPool ==
    /\ Calling("assign_free_reg_pool")
    /\ Called(assign_free_reg_pool(asm, asm.todo[1].regs))

\* let v = asm.next_label();
NextLabel ==
    /\ Calling("next_label")
    /\ Called([next_label(asm) EXCEPT
                 !.labels = (asm.todo[1].v :> label_of(asm)) @@ @])

\* The instructions and labels up to the next call on the pool or the
\* label counter.
AddSentences ==
    /\ Calling("add_sentence")
    /\ asm' = add_sentence_calls(asm, sentences_ahead(asm.todo, 1))
    /\ UNCHANGED <<pc, linker_vars, rt_vars, harts, ram>>

(***************************************************************************)
(* The generated instructions from handle_trap or __switch_to on, as a     *)
(* hart executes them: where the value each general register had on entry  *)
(* is held, in a register, a member of the TpBlock, a CSR or a slot of the *)
(* new trap frame.                                                         *)
(***************************************************************************)
\* The index of the sentence that defines the label l.
def_index(ss, l) ==
    CHOOSE i \in 1..Len(ss) :
        ss[i].op = "label" /\ ss[i].target = [k |-> "def", l |-> l]

\* The sentence a label operand of the sentence at i leads to: Nf is the
\* next definition of N, Nb the last one before.
target_index(ss, i, t) ==
    IF t.k = "fwd"
    THEN CHOOSE j \in (i + 1)..Len(ss) :
            /\ ss[j].target = [k |-> "ndef", l |-> t.l]
            /\ \A m \in (i + 1)..(j - 1) : ss[m].target # ss[j].target
    ELSE IF t.k = "bwd"
    THEN CHOOSE j \in 1..(i - 1) :
            /\ ss[j].target = [k |-> "ndef", l |-> t.l]
            /\ \A m \in (j + 1)..(i - 1) : ss[m].target # ss[j].target
    ELSE def_index(ss, t.l)

\* The memory a load or store addresses: a member of the TpBlock through
\* tp, a slot of the trap frame through sp.
mem(base, slot) ==
    IF base = "Tp" THEN "tp." \o slot
    ELSE IF base = "Sp" THEN "frame." \o slot
    ELSE base \o "." \o slot

\* The place the sentence s writes, "" where it writes none.
written(s) ==
    IF s.op = "store" THEN mem(s.rs[2], s.slot)
    ELSE IF s.op = "csrw" THEN "csr." \o s.slot
    ELSE IF s.rd = "zero" THEN ""
    ELSE s.rd

\* The place whose value the sentence s copies there, "" where the value
\* written is a new one.
copied(s) ==
    IF s.op \in {"store", "csrw", "mov"} THEN s.rs[1]
    ELSE IF s.op = "load" THEN mem(s.rs[1], s.slot)
    ELSE IF s.op = "csrr" THEN "csr." \o s.slot
    ELSE ""

\* The places of the entry values once the sentence s is executed; csrrw
\* swaps the register and the CSR.
executed(where, s) ==
    IF s.op = "csrrw"
    THEN [r \in DOMAIN where |->
            ((where[r] \ {s.rd, "csr." \o s.slot})
             \cup (IF "csr." \o s.slot \in where[r] THEN {s.rd} ELSE {}))
             \cup (IF s.rs[1] \in where[r] THEN {"csr." \o s.slot} ELSE {})]
    ELSE IF written(s) = "" THEN where
    ELSE [r \in DOMAIN where |->
            IF copied(s) \in where[r] THEN where[r] \cup {written(s)}
            ELSE where[r] \ {written(s)}]

Branches == {"beq", "bne", "beqz", "bnez", "bltu", "bgeu"}

\* The sentences that may be executed after the sentence at i.
successors(ss, i) ==
    IF ss[i].op \in {"j", "jal"} THEN {target_index(ss, i, ss[i].target)}
    ELSE IF ss[i].op \in Branches THEN {i + 1, target_index(ss, i, ss[i].target)}
    ELSE IF ss[i].op \in {"jr", "jalr", "ret", "mode_ret"} THEN {}
    ELSE {i + 1}

\* The general registers of the trap frame.
FrameRegs == {asm.rt_config.trap_frame.general_regs[i] :
                 i \in 1..Len(asm.rt_config.trap_frame.general_regs)}

\* create_trap_frame has stored every general register it stores.
FrameStored(w) ==
    \A r \in FrameRegs \ {"Sp", "Tp", "Ra"} : ("frame." \o r) \in w.where[r]

\* The entries: the trap vector and the context switch.
Entries == {"handle_trap", "__switch_to"}

\* boot.S is generated; a hart traps, or calls __switch_to.
Enter ==
    /\ asm.todo = <<>>
    /\ asm.panicked = ""
    /\ harts = << >>
    /\ \E entry \in Entries :
         harts' = << [entry |-> entry,
                      at |-> def_index(asm.sentences, entry),
                      where |-> [r \in FrameRegs |-> {r}]] >>
    /\ UNCHANGED <<pc, linker_vars, rt_vars, asm, ram>>

\* The hart executes its next instruction.
Execute ==
    /\ harts # << >>
    /\ ~FrameStored(harts[1])
    /\ \E next \in successors(asm.sentences, harts[1].at) :
         harts' = << [harts[1] EXCEPT
                        !.at = next,
                        !.where = executed(@, asm.sentences[harts[1].at])] >>
    /\ UNCHANGED <<pc, linker_vars, rt_vars, asm, ram>>

\* The TargetConfigs: each mode, single-hart or four harts, sharing the
\* reset vector or not, with and without a custom reset entrypoint.
CallTargetConfigs ==
    { [rv_mode |-> rv_mode, rv_xlen |-> "Rv64", max_hart_count |-> n,
       all_harts_start_at_reset_vector |-> shared,
       per_hart_stack_size |-> 8192, heap_size |-> 4096,
       custom_reset_config |-> custom] :
         rv_mode \in {"MMode", "SMode"}, n \in {1, 4},
         shared \in BOOLEAN, custom \in BOOLEAN }

InitCalls ==
    /\ IdleBuild
    /\ harts = << >>
    /\ ram = << >>
    /\ \E tc \in CallTargetConfigs,
          skip_bss_clearing \in BOOLEAN, stack_overflow_detection \in BOOLEAN,
          supports_atomic_extension \in BOOLEAN,
          floating_point_support \in BOOLEAN, sfence \in BOOLEAN :
         asm = AsmBuilder_calling(
                 RtConfig_new_with(TrapFrame_get_default, TpBlock_get_default, tc,
                     skip_bss_clearing, stack_overflow_detection,
                     supports_atomic_extension, floating_point_support, sfence))

NextCalls ==
    \/ GetFreeReg
    \/ ReleaseReg
    \/ AllocateRegForId
    \/ ReleaseIdReg
    \/ InitDefaultFreeRegPool
    \/ DrainFreeRegPool
    \/ AssignFreeRegPool
    \/ NextLabel
    \/ AddSentences
    \/ Enter
    \/ Execute

SpecCalls == InitCalls /\ [][NextCalls]_vars

(***************************************************************************)
(* The labels of the generated boot.S.                                     *)
(***************************************************************************)
\* The sentences of ss that define the label with this target.
definitions(ss, t) == {j \in 1..Len(ss) : ss[j].op = "label" /\ ss[j].target = t}

\* boot.S is generated: write_boot_s_file has made all its calls.
Generated == asm.todo = <<>> /\ asm.panicked = ""

\* C26: in the generated instruction stream, for every target and feature
\* flags, each numeric label is defined exactly once, every reference Nf
\* comes before and every reference Nb after the definition of N, and every
\* label of the label map that an instruction refers to is defined exactly
\* once. The stream is looked at when write_boot_s_file has made its last
\* call, before any hart runs it; it does not change afterwards.
C26_LabelsDefinedOnce ==
    (asm.todo = <<>> /\ harts = << >>) =>
      /\ asm.panicked = ""
      /\ \A i \in 1..Len(asm.sentences) :
           LET t == asm.sentences[i].target
               numeric == definitions(asm.sentences, [k |-> "ndef", l |-> t.l])
           IN /\ t.k = "ndef" => numeric = {i}
              /\ t.k = "fwd" =>
                    Cardinality(numeric) = 1 /\ \A j \in numeric : i < j
              /\ t.k = "bwd" =>
                    Cardinality(numeric) = 1 /\ \A j \in numeric : j < i
              /\ t.k = "named" =>
                    Cardinality(definitions(asm.sentences, [k |-> "def", l |-> t.l])) = 1

\* A generated stream with labels of each kind: the multi-hart start code
\* with the BSS loop, the stack check and the floating-point and sfence
\* branches of restore_trap_frame.
C26_Witness ==
    /\ Generated
    /\ asm.next_label > 10
    /\ \E i, j, k \in 1..Len(asm.sentences) :
         /\ asm.sentences[i].target.k = "fwd"
         /\ asm.sentences[j].target.k = "bwd"
         /\ asm.sentences[k].target = named("bss_init_done")

(***************************************************************************)
(* The free-register pool and the named registers during generation.       *)
(***************************************************************************)
\* The registers bound as boot id or hart id.
BoundRegs == {asm.named_regs[n] : n \in DOMAIN asm.named_regs}

\* The call write_boot_s_file makes next takes a register from the pool.
Allocating ==
    /\ asm.todo # <<>>
    /\ asm.todo[1].call \in {"get_free_reg", "allocate_reg_for"}

\* The named registers the next add_sentence calls use.
NamedRegsUsed ==
    UNION {operands(asm.todo[i]) \cap NamedRegs :
              i \in 1..sentences_ahead(asm.todo, 1)}

\* The pool holds no register twice; an allocation finds the pool not
\* empty, takes no register that is held or bound, and after a call to
\* create_trap_frame finds the pool at its default; a named register is
\* used while bound.
PoolDiscipline(held) ==
    /\ asm.panicked = ""
    /\ \A i, j \in 1..Len(asm.free_general_regs) :
         asm.free_general_regs[i] = asm.free_general_regs[j] => i = j
    /\ Allocating =>
         /\ asm.free_general_regs # <<>>
         /\ free_reg(asm) \notin held \cup BoundRegs
         /\ asm.frame_called => asm.free_general_regs = default_free_regs
    /\ NamedRegsUsed \subseteq DOMAIN asm.named_regs

\* C30: at every step of the generation, for every target and feature
\* flags, the free-register pool holds no register twice, get_free_reg hands
\* out no register that is held by an unreleased allocation or bound as boot
\* id or hart id, the boot id and hart id bindings are used only while
\* bound, the pool is never exhausted, and after each call to
\* create_trap_frame the pool is at its default set before the next
\* allocation.
C30_PoolDiscipline == PoolDiscipline(asm.unreleased)

\* The same with the allocations counted from the last drain of the pool.
PoolDisciplineSinceDrain == PoolDiscipline(asm.live)

\* get_free_reg is about to hand out a register whose earlier allocation
\* was never released.
HandsOutUnreleased ==
    /\ asm.todo # <<>>
    /\ asm.todo[1].call = "get_free_reg"
    /\ asm.free_general_regs # <<>>
    /\ free_reg(asm) \in asm.unreleased

\* The generation has reached the allocation that follows the call to
\* create_trap_frame in goto_rust_entrypoint, with the pool at its default.
AllocatesAfterFrameCall ==
    /\ Allocating
    /\ asm.frame_called
    /\ asm.free_general_regs = default_free_regs

(***************************************************************************)
(* The registers of the interrupted context on the way into a trap frame.  *)
(***************************************************************************)
\* C27: from the first instruction of handle_trap or of __switch_to until
\* create_trap_frame has stored the general registers in the new frame, the
\* generated code writes no general register other than sp, tp and ra, it
\* writes ra only when the ra of the interrupted context is in the
\* return-address member of the TpBlock, and the value every general
\* register had on entry is still held somewhere.
C27_ContextKeptUntilSaved ==
    harts # << >> =>
      /\ \A r \in FrameRegs : harts[1].where[r] # {}
      /\ ~FrameStored(harts[1]) =>
           /\ asm.sentences[harts[1].at].rd \in {"", "zero", "Sp", "Tp", "Ra"}
           /\ asm.sentences[harts[1].at].rd = "Ra" =>
                "tp.ReturnAddr" \in harts[1].where["Ra"]

\* A nested trap has gone through handle_trap, jump_to_rust and the stores
\* of create_trap_frame: sp, tp and ra of the interrupted context are in
\* the TpBlock and the sp in use is a new one.
C27_Witness ==
    /\ harts # << >>
    /\ harts[1].entry = "handle_trap"
    /\ FrameStored(harts[1])
    /\ "tp.CurrentModeStack" \in harts[1].where["Sp"]
    /\ "tp.InterruptedModeStack" \in harts[1].where["Sp"]
    /\ "tp.InterruptedModeTp" \in harts[1].where["Tp"]
    /\ "tp.ReturnAddr" \in harts[1].where["Ra"]
    /\ "Sp" \notin harts[1].where["Sp"]

\* The context switch has gone the same way from __switch_to.
SwitchToContextStored ==
    /\ harts # << >>
    /\ harts[1].entry = "__switch_to"
    /\ FrameStored(harts[1])
    /\ "tp.InterruptedModeStack" \in harts[1].where["Sp"]
    /\ "tp.ReturnAddr" \in harts[1].where["Ra"]

====
